---- MODULE Spec2Model ----
(***************************************************************************)
(* Verification model of the research search tool (GKamundia/Search_tool). *)
(*                                                                         *)
(* Part I   - the query translators of the React query preview             *)
(*            (QueryPreview.tsx: buildPubMedQuery, buildArXivQuery,        *)
(*            buildGIMQuery), specification Spec.                          *)
(* Part II  - the saved-search store, the alert scheduler and the Saved    *)
(*            Searches page that drives them, specifications SchedSpec     *)
(*            (the sweep over time) and DiffSpec (the diff of a run).      *)
(* Part III - the result aggregator, specification AggSpec.                *)
(* Part IV  - the search form (SearchForm, DatabaseSelector,               *)
(*            DateRangeSelector, ResultsLimitInput), specifications        *)
(*            YearSpec, DatabaseSpec and LimitSpec.                        *)
(* Part V   - the New Papers page and mark-as-read, specification          *)
(*            PapersSpec.                                                  *)
(* Part VI  - toggle and delete of a saved search, specifications LifeSpec *)
(*            (the page) and CascadeSpec (delete against the sweep).       *)
(* Part VII - the response of a direct search and the results view,        *)
(*            specification ResultsSpec.                                   *)
(* Part VIII- the Save Search dialog, specification ModalSpec.             *)
(* Part IX  - the request of a direct search (performSearch) and           *)
(*            overlapping searches on the search page, specifications      *)
(*            SendSpec and OverlapSpec.                                    *)
(* Part X   - the filters of the New Papers page, specification FetchSpec. *)
(* Part XI  - the HTML search form and its query editors                   *)
(*            (templates/index.html), specification HtmlSpec.              *)
(* The Saved Searches page is also run against every response body its     *)
(* service declares, specification NotifySpec.                             *)
(*                                                                         *)
(* Text is modelled as a sequence of atoms: an atom is either one blank    *)
(* " " or a chunk without blanks, so that trimming, joining with a blank   *)
(* and the place of every marker are computed, not assumed.  Str turns     *)
(* such a sequence into the string it spells.                              *)
(***************************************************************************)
EXTENDS Integers, Sequences, FiniteSets, TLC

VARIABLES
    searchParams,   \* QueryPreview props: the SearchParams being previewed
    activeTab,      \* QueryPreview state: 0 PubMed, 1 arXiv, 2 GIM
    preview,        \* what QueryPreview displays after its last render
    now,            \* the store's clock, in days
    searches,       \* saved-search store: id -> SavedSearch
    catalog,        \* what each backend currently returns: backend -> ids
    seenRows,       \* saved-search store: the SeenResult rows
    runs,           \* executions of saved searches in flight on the server
    sweeping,       \* the scheduler is inside a sweep
    sweepQueue,     \* saved searches the sweep selected and has not started
    request,        \* the run/test request of the Saved Searches page
    actionLoading,  \* SavedSearchesPage state
    notification,   \* SavedSearchesPage state: the snackbar
    aggBackends,    \* aggregator: the backends the query in hand requests
    aggTasks,       \* aggregator: backend -> the task of its client call
    aggStatus,      \* aggregator: "idle", "running", "done" or "failed"
    aggResult,      \* aggregator: the map backend -> outcome it returned
    maxResults,     \* SearchForm state
    searchRequest,  \* the params of the last performSearch call of SearchPage
    loading,        \* SearchPage state
    pageError,      \* SearchPage state: error, "" for null
    results,        \* SearchPage state: the results shown, or none
    resultsTab,     \* ResultsContainer state: activeTab
    searchResponse, \* the response to performSearch on its way to the page
    papers,         \* NewPapersPage state: the papers listed
    markingRead,    \* NewPapersPage state
    papersError,    \* NewPapersPage state: error, "" for null
    markCalls,      \* the handleMarkAsRead calls that have not returned
    pageSearches,   \* SavedSearchesPage state: searches, the rows listed
    deleteDialogOpen,   \* SavedSearchesPage state
    searchToDelete, \* SavedSearchesPage state, NoSearch for null
    saveModalOpen,  \* ResultsContainer state
    saveNotified,   \* ResultsContainer state: notification.open
    searchName,     \* SaveSearchModal state
    email,          \* SaveSearchModal state
    saveFrequency,  \* SaveSearchModal state: frequency
    selectedDatabases,  \* SaveSearchModal state
    saveLoading,    \* SaveSearchModal state: loading
    saveError,      \* SaveSearchModal state: error, "" for null
    saveRequest,    \* the saveSearch calls made: their number and the last
    searchCalls,    \* the handleSearch calls of SearchPage that have not returned
    searchQuery,    \* SearchPage state: the query label of ResultsContainer
    selectedSearchId,   \* NewPapersPage state, "" for All Searches
    selectedDatabase,   \* NewPapersPage state, "" for All Databases
    papersLoading,  \* NewPapersPage state: loading
    fetches,        \* the fetchData calls of NewPapersPage that have not returned
    htmlForm,       \* templates/index.html: the values of the form fields
    queryBox        \* templates/index.html: database -> its .database-query box

translateVars == <<searchParams, activeTab, preview>>
storeVars == <<now, searches, catalog, seenRows, runs, sweeping, sweepQueue>>
pageVars == <<request, actionLoading, notification>>
schedVars == <<storeVars, pageVars>>
aggVars == <<aggBackends, aggTasks, aggStatus, aggResult>>
searchVars == <<maxResults, searchRequest, loading, pageError, results,
                resultsTab, searchResponse>>
papersVars == <<papers, markingRead, papersError, markCalls>>
lifeVars == <<pageSearches, deleteDialogOpen, searchToDelete>>
modalVars == <<saveModalOpen, saveNotified, searchName, email, saveFrequency,
               selectedDatabases, saveLoading, saveError, saveRequest>>
overlapVars == <<searchCalls, searchQuery>>
fetchVars == <<selectedSearchId, selectedDatabase, papersLoading, fetches>>
htmlVars == <<htmlForm, queryBox>>
moreVars == <<overlapVars, fetchVars, htmlVars>>
sideVars == <<papersVars, lifeVars, modalVars, moreVars>>
uiVars == <<searchVars, sideVars>>

-----------------------------------------------------------------------------
(* Bounds of the model *)

\* longest term list of the connective family of inputs
MaxTerms == 3
\* longest term list of the field family of inputs
MaxFieldTerms == 2
\* number of saved searches in the store
NumSearches == 1
\* number of records a backend can come to return
MaxRecords == 2
\* number of handleMarkAsRead calls that can be waiting for their response
MaxMarkCalls == 3
\* number of save-search requests the modal sends
MaxSaves == 2
\* number of handleSearch calls that can be waiting for their response
MaxSearchCalls == 2
\* number of fetchData calls that can be waiting for their response
MaxFetches == 2
\* number of term rows of the HTML form
MaxHtmlRows == 2
\* longest term list of the submitted forms
MaxSentTerms == 2

-----------------------------------------------------------------------------
(* Text helpers *)

SP == " "
QUOTE == "\""

RECURSIVE Str(_)
Str(s) == IF s = <<>> THEN "" ELSE Head(s) \o Str(Tail(s))

RECURSIVE TrimStart(_)
TrimStart(s) == IF s # <<>> /\ Head(s) = SP THEN TrimStart(Tail(s)) ELSE s

RECURSIVE TrimEnd(_)
TrimEnd(s) ==
    IF s # <<>> /\ s[Len(s)] = SP THEN TrimEnd(SubSeq(s, 1, Len(s) - 1)) ELSE s

\* String.prototype.trim
Trim(s) == TrimEnd(TrimStart(s))

\* JavaScript truthiness of a string: only '' (and undefined) is falsy
Truthy(s) == s # ""

\* if (term.trim()) ...
IsActive(term) == Trim(term) # <<>>

\* Array.prototype.join(' ') over the text of the parts
RECURSIVE Join(_)
Join(parts) ==
    IF parts = <<>> THEN <<>>
    ELSE IF Len(parts) = 1 THEN parts[1].text
    ELSE parts[1].text \o <<SP>> \o Join(Tail(parts))

-----------------------------------------------------------------------------
(* Part I: QueryPreview.tsx *)

Databases == {"pubmed", "arxiv", "gim"}

\* switch (field) of buildPubMedQuery
PubMedFieldMapping(field) ==
    CASE field = "title"          -> <<"[", "Title", "]">>
      [] field = "title_abstract" -> <<"[", "Title/Abstract", "]">>
      [] field = "abstract"       -> <<"[", "Abstract", "]">>
      [] field = "author"         -> <<"[", "Author", "]">>
      [] field = "journal"        -> <<"[", "Journal", "]">>
      [] field = "keyword"        -> <<"[", "MeSH", SP, "Terms", "]">>
      [] field = "mesh"           -> <<"[", "MeSH", SP, "Terms", "]">>
      [] OTHER                    -> <<>>

\* switch (field) of buildArXivQuery
ArXivFieldMapping(field) ==
    CASE field = "title"          -> <<"ti", ":">>
      [] field = "title_abstract" -> <<"all", ":">>
      [] field = "abstract"       -> <<"abs", ":">>
      [] field = "author"         -> <<"au", ":">>
      [] field = "journal"        -> <<"jr", ":">>
      [] OTHER                    -> <<>>

\* switch (field) of buildGIMQuery
GIMFieldMapping(field) ==
    CASE field = "title"          -> <<"title", ":">>
      [] field = "title_abstract" -> <<"title_abstract", ":">>
      [] field = "abstract"       -> <<"abstract", ":">>
      [] field = "author"         -> <<"author", ":">>
      [] field = "journal"        -> <<"source", ":">>
      [] field = "keyword"        -> <<"keyword", ":">>
      [] OTHER                    -> <<>>

\* PubMedTerm with the marker put in front of the parenthesis
PubMedTermMarkerFirst(term, field) ==
    PubMedFieldMapping(field) \o <<"(">> \o term \o <<")">>

\* queryParts.push(`(${term}${fieldMapping})`)
PubMedTerm(term, field) ==
    <<"(">> \o term \o PubMedFieldMapping(field) \o <<")">>

\* queryParts.push(fieldMapping ? `${fieldMapping}"${term}"` : term)
ArXivTerm(term, field) ==
    IF ArXivFieldMapping(field) # <<>>
    THEN ArXivFieldMapping(field) \o <<QUOTE>> \o term \o <<QUOTE>>
    ELSE term

\* queryParts.push(field ? `${fieldMapping}"${term}"` : term)
GIMTerm(term, field) ==
    IF Truthy(field)
    THEN GIMFieldMapping(field) \o <<QUOTE>> \o term \o <<QUOTE>>
    ELSE term

RenderTerm(db, term, field) ==
    CASE db = "pubmed" -> PubMedTerm(term, field)
      [] db = "arxiv"  -> ArXivTerm(term, field)
      [] db = "gim"    -> GIMTerm(term, field)

\* searchParams.operators[index] || 'AND'
OperatorOrAnd(op) == IF Truthy(op) THEN op ELSE "AND"

\* the operator pushed after the term at (1-based) position i
PushedOperator(sp, i) == OperatorOrAnd(sp.operators[i])

\* if (index < searchParams.terms.length - 1)
PushesOperator(sp, i) == i < Len(sp.terms)

\* searchParams.terms.forEach((term, index) => { ... }), from position i on
RECURSIVE TermParts(_, _, _)
TermParts(db, sp, i) ==
    IF i > Len(sp.terms) THEN <<>>
    ELSE (IF IsActive(sp.terms[i])
          THEN <<[kind |-> "term", text |-> RenderTerm(db, sp.terms[i], sp.fields[i])]>>
               \o (IF PushesOperator(sp, i)
                   THEN <<[kind |-> "op", text |-> <<PushedOperator(sp, i)>>]>>
                   ELSE <<>>)
          ELSE <<>>)
         \o TermParts(db, sp, i + 1)

\* `AND (${startYear}:${endYear}[dp])`
PubMedDatePart(s, e) ==
    <<"AND", SP, "(", s, ":", e, "[", "dp", "]", ")">>

\* ` AND submittedDate:[${startYear}0101 TO ${endYear}1231]`
ArXivDatePart(s, e) ==
    <<SP, "AND", SP, "submittedDate", ":", "[", s \o "0101", SP, "TO", SP,
      e \o "1231", "]">>

\* ` AND year:${startYear}-${endYear}`
GIMDatePart(s, e) ==
    <<SP, "AND", SP, "year", ":", s, "-", e>>

DatePart(db, s, e) ==
    CASE db = "pubmed" -> PubMedDatePart(s, e)
      [] db = "arxiv"  -> ArXivDatePart(s, e)
      [] db = "gim"    -> GIMDatePart(s, e)

\* if (searchParams.startYear && searchParams.endYear) queryParts.push(...)
HasDateRange(sp) == Truthy(sp.startYear) /\ Truthy(sp.endYear)

DateParts(db, sp) ==
    IF HasDateRange(sp)
    THEN <<[kind |-> "date", text |-> DatePart(db, sp.startYear, sp.endYear)]>>
    ELSE <<>>

\* the queryParts array of a builder just before the join
QueryParts(db, sp) == TermParts(db, sp, 1) \o DateParts(db, sp)

\* the three builders: early return on an empty term list, else the join
BuildQuery(db, sp) ==
    IF Len(sp.terms) = 0 THEN <<>> ELSE Join(QueryParts(db, sp))

buildPubMedQuery(sp) == BuildQuery("pubmed", sp)
buildArXivQuery(sp) == BuildQuery("arxiv", sp)
buildGIMQuery(sp) == BuildQuery("gim", sp)

TabDatabase(tab) ==
    CASE tab = 0 -> "pubmed" [] tab = 1 -> "arxiv" [] tab = 2 -> "gim"

\* the component's render: null without an active term, else the active
\* tab's query
RenderPreview(sp, tab) ==
    IF Len(sp.terms) = 0 \/ \A i \in 1..Len(sp.terms) : ~IsActive(sp.terms[i])
    THEN [visible |-> FALSE, text |-> <<>>]
    ELSE [visible |-> TRUE, text |-> BuildQuery(TabDatabase(tab), sp)]

\* <Tab disabled={!searchParams.databases.includes(...)} />
TabEnabled(sp, tab) == TabDatabase(tab) \in sp.databases

\* handleTabChange, followed by the re-render
handleTabChange(newValue) ==
    /\ TabEnabled(searchParams, newValue)
    /\ newValue # activeTab
    /\ activeTab' = newValue
    /\ preview' = RenderPreview(searchParams, newValue)
    /\ UNCHANGED searchParams
    /\ UNCHANGED <<schedVars, aggVars, uiVars>>

-----------------------------------------------------------------------------
(* Inputs of the translators *)

Cancer == <<"cancer">>
GeneTherapy == <<"gene", SP, "therapy">>
ClinicalTrial == <<"clinical", SP, "trial">>

\* term texts with something in them, and texts that trim to nothing
Texts == {Cancer, GeneTherapy, ClinicalTrial}
BlankTexts == {<<>>, <<SP>>}

\* the MenuItems of the operator Select; "" stands for an unspecified one
Operators == {"AND", "OR", "NOT"}

\* the fieldOptions of a term row; "" is All Fields
FieldOptions ==
    {"", "title", "title_abstract", "abstract", "author", "journal",
     "keyword", "mesh"}

\* a field value no table knows
UnknownField == "doi"

StartYears == {"", "2010"}
EndYears == {"", "2020"}

\* rows that vary the text (blank or not) and the connective
ConnectiveRows ==
    [text : BlankTexts \cup {Cancer}, op : Operators \cup {""}, field : {""}]

\* rows that vary the text and the field
FieldRows ==
    [text : Texts, op : {"AND"}, field : FieldOptions \cup {UnknownField}]

RowLists(rows, n) == UNION {[1..k -> rows] : k \in 0..n}

ParamsOf(rows, s, e) ==
    [terms     |-> [i \in 1..Len(rows) |-> rows[i].text],
     operators |-> [i \in 1..Len(rows) |-> rows[i].op],
     fields    |-> [i \in 1..Len(rows) |-> rows[i].field],
     databases |-> Databases,
     startYear |-> s,
     endYear   |-> e]

InputParams ==
    {ParamsOf(rows, s, e) :
        rows \in RowLists(ConnectiveRows, MaxTerms)
                 \cup RowLists(FieldRows, MaxFieldTerms),
        s \in StartYears, e \in EndYears}

TranslateInit ==
    /\ searchParams \in InputParams
    /\ activeTab = 0
    /\ preview = RenderPreview(searchParams, 0)

TranslateNext == \E newValue \in 0..2 : handleTabChange(newValue)

-----------------------------------------------------------------------------
(* Part II: the saved-search store and the alert scheduler (the server side *)
(* of /run_search and /test_alert and the periodic sweep), and the Saved    *)
(* Searches page that sends the run and test requests.                      *)

SearchIds == 1..NumSearches
ExtIds == 1..MaxRecords

\* the backends of the saved searches
SavedBackends == {"pubmed", "arxiv"}

Frequencies == {"daily", "weekly", "monthly"}

\* the instants at which the clock is looked at (days)
Instants == {0, 1, 7, 30}

\* lastCheckedAt of a saved search that was never run
NoCheck == -1

\* actionLoading = null
NoAction == 0

\* the body of a run/test response as the page reads it
Response(summary) ==
    [success |-> summary.success, new_papers_count |-> summary.newResultCount,
     error |-> summary.error]

NoRequest == [id |-> 0, kind |-> "none", phase |-> "none",
              result |-> [success |-> FALSE, new_papers_count |-> 0,
                          error |-> FALSE]]

NoResult == NoRequest.result

\* DAILY = 1 day, WEEKLY = 7 days, MONTHLY = 30 days
FrequencyInterval(frequency) ==
    CASE frequency = "daily"   -> 1
      [] frequency = "weekly"  -> 7
      [] frequency = "monthly" -> 30

\* the due rule with the null test taken outside the active test
IsDueNullFirst(s, t) ==
    \/ s.lastCheckedAt = NoCheck
    \/ s.active /\ t - s.lastCheckedAt >= FrequencyInterval(s.frequency)

\* the due-selection rule of one saved search at time t
IsDue(s, t) ==
    /\ s.active
    /\ \/ s.lastCheckedAt = NoCheck
       \/ t - s.lastCheckedAt >= FrequencyInterval(s.frequency)

DueSelection(t) == {id \in DOMAIN searches : IsDue(searches[id], t)}

Key(row) == <<row.sid, row.backend, row.extId>>

RowsOf(rows, sid, backend, extId) ==
    {row \in rows : Key(row) = <<sid, backend, extId>>}

\* appending the rows without looking at the rows that are there
InsertRowsUnchecked(rows, sid, keys) ==
    rows \cup
    {[sid |-> sid, backend |-> k[1], extId |-> k[2], isRead |-> FALSE,
      dup |-> Cardinality(RowsOf(rows, sid, k[1], k[2])) + 1] : k \in keys}

\* step 3 of the execution protocol: the records become SeenResult rows
\* (isRead = false); the store's unique key makes the insert of a pair that
\* is already there a success that changes nothing
InsertRows(rows, sid, keys) ==
    rows \cup
    {[sid |-> sid, backend |-> k[1], extId |-> k[2], isRead |-> FALSE,
      dup |-> 1] : k \in {k \in keys : RowsOf(rows, sid, k[1], k[2]) = {}}}

\* step 1: the records of the backends that succeeded
Results(failed) ==
    {<<b, x>> : b \in SavedBackends \ failed, x \in ExtIds} \cap
    {k \in SavedBackends \X ExtIds : k[2] \in catalog[k[1]]}

\* step 2: the records with no SeenResult row of this saved search
Fresh(sid, records) ==
    {k \in records : RowsOf(seenRows, sid, k[1], k[2]) = {}}

AllFailed(r) == r.failed = SavedBackends

\* a run that advances lastCheckedAt whatever its backends did
AdvancesAlways(r) == TRUE

\* step 4: lastCheckedAt = now unless every backend failed
Advances(r) == ~AllFailed(r)

\* step 5, and the Run/Test endpoints: the summary, or error on total failure
RunSummary(r) ==
    IF AllFailed(r)
    THEN [success |-> FALSE, newResultCount |-> 0,
          perBackendErrors |-> r.failed, error |-> TRUE]
    ELSE [success |-> TRUE, newResultCount |-> Cardinality(r.fresh),
          perBackendErrors |-> r.failed, error |-> FALSE]

\* the clock moves on to a later instant
Tick ==
    /\ \E t \in Instants : t > now /\ now' = t
    /\ UNCHANGED <<searches, catalog, seenRows, runs, sweeping, sweepQueue>>
    /\ UNCHANGED <<pageVars, translateVars, aggVars, uiVars>>

\* a backend comes to return one more record
Publish(b, x) ==
    /\ x \notin catalog[b]
    /\ catalog' = [catalog EXCEPT ![b] = @ \cup {x}]
    /\ UNCHANGED <<now, searches, seenRows, runs, sweeping, sweepQueue>>
    /\ UNCHANGED <<pageVars, translateVars, aggVars, uiVars>>

\* the periodic sweep enumerates the due saved searches
SweepSelect ==
    /\ ~sweeping
    /\ sweeping' = TRUE
    /\ sweepQueue' = DueSelection(now)
    /\ UNCHANGED <<now, searches, catalog, seenRows, runs>>
    /\ UNCHANGED <<pageVars, translateVars, aggVars, uiVars>>

\* the sweep ends when every selected saved search was executed
SweepDone ==
    /\ sweeping
    /\ sweepQueue = {}
    /\ \A r \in runs : r.origin # "scheduled"
    /\ sweeping' = FALSE
    /\ UNCHANGED <<now, searches, catalog, seenRows, runs, sweepQueue>>
    /\ UNCHANGED <<pageVars, translateVars, aggVars, uiVars>>

\* steps 1 and 2 of an execution: the backends are called (any of them may
\* fail or time out) and the records are looked up among the SeenResult rows
StartedRun(sid, origin, failed) ==
    [sid |-> sid, origin |-> origin, failed |-> failed,
     fresh |-> Fresh(sid, Results(failed))]

\* the test variant runs the pipeline on a synthetic outcome of n records
\* that is discarded afterwards
StartedTest(sid, n) ==
    [sid |-> sid, origin |-> "test", failed |-> {},
     fresh |-> {<<"synthetic", x>> : x \in 1..n}]

\* the sweep starts the execution of a selected saved search
ScheduledRunStart(sid) ==
    /\ sid \in sweepQueue
    /\ sid \in DOMAIN searches
    /\ sweepQueue' = sweepQueue \ {sid}
    /\ \E failed \in SUBSET SavedBackends :
         runs' = runs \cup {StartedRun(sid, "scheduled", failed)}
    /\ UNCHANGED <<now, searches, catalog, seenRows, sweeping>>
    /\ UNCHANGED <<pageVars, translateVars, aggVars, uiVars>>

\* POST /run_search/<id> reaches the server
ManualRunStart ==
    /\ request.kind = "run" /\ request.phase = "sent"
    /\ request.id \in DOMAIN searches
    /\ request' = [request EXCEPT !.phase = "running"]
    /\ \E failed \in SUBSET SavedBackends :
         runs' = runs \cup {StartedRun(request.id, "manual", failed)}
    /\ UNCHANGED <<now, searches, catalog, seenRows, sweeping, sweepQueue>>
    /\ UNCHANGED <<actionLoading, notification, translateVars, aggVars, uiVars>>

\* POST /test_alert/<id> reaches the server
TestRunStart ==
    /\ request.kind = "test" /\ request.phase = "sent"
    /\ request.id \in DOMAIN searches
    /\ request' = [request EXCEPT !.phase = "running"]
    /\ \E n \in 0..MaxRecords :
         runs' = runs \cup {StartedTest(request.id, n)}
    /\ UNCHANGED <<now, searches, catalog, seenRows, sweeping, sweepQueue>>
    /\ UNCHANGED <<actionLoading, notification, translateVars, aggVars, uiVars>>

\* steps 3 to 5 of an execution
RunFinish(r) ==
    /\ r \in runs
    /\ runs' = runs \ {r}
    /\ IF r.origin # "test" /\ Advances(r)
       THEN /\ searches' = (IF r.sid \in DOMAIN searches
                             THEN [searches EXCEPT
                                      ![r.sid].lastCheckedAt = now]
                             ELSE searches)
            /\ seenRows' =
                 (IF AllFailed(r) THEN seenRows
                  ELSE InsertRows(seenRows, r.sid, r.fresh))
       ELSE UNCHANGED <<searches, seenRows>>
    /\ IF r.origin = "scheduled"
       THEN UNCHANGED request
       ELSE request' = [request EXCEPT !.phase = "responded",
                                       !.result = Response(RunSummary(r))]
    /\ UNCHANGED <<now, catalog, sweeping, sweepQueue>>
    /\ UNCHANGED <<actionLoading, notification, translateVars, aggVars, uiVars>>

\* markRead(seenResultId)
MarkRead(row) ==
    /\ row \in seenRows
    /\ seenRows' = (seenRows \ {row}) \cup {[row EXCEPT !.isRead = TRUE]}
    /\ UNCHANGED <<now, searches, catalog, runs, sweeping, sweepQueue>>
    /\ UNCHANGED <<pageVars, translateVars, aggVars, uiVars>>

\* showNotification
Shown(message, severity) == [message |-> message, severity |-> severity]

\* the buttons of a row are enabled: disabled={!!actionLoading}
ButtonsEnabled == actionLoading = NoAction

\* handleRunSearch up to the await
handleRunSearch(searchId) ==
    /\ ButtonsEnabled
    /\ actionLoading' = searchId
    /\ request' = [id |-> searchId, kind |-> "run", phase |-> "sent",
                   result |-> NoResult]
    /\ UNCHANGED <<notification, storeVars, translateVars, aggVars, uiVars>>

\* handleTestAlert up to the await
handleTestAlert(searchId) ==
    /\ ButtonsEnabled
    /\ actionLoading' = searchId
    /\ request' = [id |-> searchId, kind |-> "test", phase |-> "sent",
                   result |-> NoResult]
    /\ UNCHANGED <<notification, storeVars, translateVars, aggVars, uiVars>>

\* a handler that shows every response of a run as an error
RunSearchResolvedAsError ==
    /\ request.kind = "run" /\ request.phase = "responded"
    /\ notification' = Shown("error", "error")
    /\ actionLoading' = NoAction
    /\ request' = NoRequest
    /\ UNCHANGED <<storeVars, translateVars, aggVars, uiVars>>

\* handleRunSearch after the await: the branches on result, then finally
RunSearchResolved ==
    /\ request.kind = "run" /\ request.phase = "responded"
    /\ notification' =
         (IF request.result.error THEN Shown("error", "error")
          ELSE IF request.result.success
               THEN (IF request.result.new_papers_count > 0
                     THEN Shown("found", "success")
                     ELSE Shown("none", "info"))
               ELSE notification)
    /\ actionLoading' = NoAction
    /\ request' = NoRequest
    /\ UNCHANGED <<storeVars, translateVars, aggVars, uiVars>>

\* handleTestAlert after the await
TestAlertResolved ==
    /\ request.kind = "test" /\ request.phase = "responded"
    /\ notification' =
         (IF request.result.error THEN Shown("error", "error")
          ELSE IF request.result.success THEN Shown("tested", "success")
               ELSE notification)
    /\ actionLoading' = NoAction
    /\ request' = NoRequest
    /\ UNCHANGED <<storeVars, translateVars, aggVars, uiVars>>

\* the request rejects before it reaches the server: catch, then finally
RequestRejected ==
    /\ request.phase = "sent"
    /\ notification' = Shown("failed", "error")
    /\ actionLoading' = NoAction
    /\ request' = NoRequest
    /\ UNCHANGED <<storeVars, translateVars, aggVars, uiVars>>

-----------------------------------------------------------------------------
(* Part III: the result aggregator behind /search.  aggregate(query) spawns *)
(* one client call per requested backend, every call bounded by a timeout, *)
(* joins them and folds the outcomes into a map keyed by backend.          *)

NoTask == [state |-> "none", records |-> {}]
PendingTask == [state |-> "pending", records |-> {}]
NoOutcomes == [b \in {} |-> {}]

\* the backend sets a query can request
BackendSets == (SUBSET Databases) \ {{}}

\* the outcome of a finished task: its result list or an error descriptor
Outcome(task) ==
    IF task.state = "ok"
    THEN [kind |-> "records", records |-> task.records, reason |-> ""]
    ELSE [kind |-> "error", records |-> {}, reason |-> task.state]

\* a fold that keeps the backends that answered only
FoldSucceeded(tasks, backends) ==
    [b \in {x \in backends : tasks[x].state = "ok"} |-> Outcome(tasks[b])]

\* fold into a keyed result map
Fold(tasks, backends) == [b \in backends |-> Outcome(tasks[b])]

Settled(task) == task.state \in {"ok", "failed", "timeout"}

\* spawn one task per requested backend
aggregate(backends) ==
    /\ aggStatus \in {"idle", "done"}
    /\ aggBackends' = backends
    /\ aggTasks' = [b \in Databases |->
                      IF b \in backends THEN PendingTask ELSE NoTask]
    /\ aggStatus' = "running"
    /\ aggResult' = NoOutcomes
    /\ UNCHANGED <<translateVars, schedVars, uiVars>>

\* the client of backend b returns its result list
ClientReturns(b, records) ==
    /\ aggStatus = "running"
    /\ aggTasks[b].state = "pending"
    /\ aggTasks' = [aggTasks EXCEPT ![b] = [state |-> "ok", records |-> records]]
    /\ UNCHANGED <<aggBackends, aggStatus, aggResult, translateVars, schedVars, uiVars>>

\* the client of backend b reports a failure
ClientFails(b) ==
    /\ aggStatus = "running"
    /\ aggTasks[b].state = "pending"
    /\ aggTasks' = [aggTasks EXCEPT ![b] = [state |-> "failed", records |-> {}]]
    /\ UNCHANGED <<aggBackends, aggStatus, aggResult, translateVars, schedVars, uiVars>>

\* the deadline of the call to backend b passes
ClientTimesOut(b) ==
    /\ aggStatus = "running"
    /\ aggTasks[b].state = "pending"
    /\ aggTasks' = [aggTasks EXCEPT ![b] = [state |-> "timeout", records |-> {}]]
    /\ UNCHANGED <<aggBackends, aggStatus, aggResult, translateVars, schedVars, uiVars>>

\* every task has completed or timed out: return the map
JoinTasks ==
    /\ aggStatus = "running"
    /\ \A b \in aggBackends : Settled(aggTasks[b])
    /\ aggResult' = Fold(aggTasks, aggBackends)
    /\ aggStatus' = "done"
    /\ UNCHANGED <<aggBackends, aggTasks, translateVars, schedVars, uiVars>>

-----------------------------------------------------------------------------
(* Part IV: the search form (SearchForm, DatabaseSelector,                  *)
(* DateRangeSelector, ResultsLimitInput) and the search page that sends the *)
(* form's query (SearchPage.handleSearch, searchService.performSearch).     *)
(* The value of a text input is a sequence of characters.                   *)

\* new Date().getFullYear()
CurrentYear == 2026

\* validateYear: year >= 1800
MinYear == 1800

\* inputProps={{ maxLength: 4 }} of the two year fields
YearMaxLength == 4

\* useState<number>(50)
InitialMaxResults == 50

\* min, max and step of the slider, and the bounds of handleInputChange
LimitMin == 10
LimitMax == 200
LimitStep == 10

Digits == {"0", "1", "2", "3", "4", "5", "6", "7", "8", "9"}

DigitValue(c) ==
    CASE c = "0" -> 0 [] c = "1" -> 1 [] c = "2" -> 2 [] c = "3" -> 3
      [] c = "4" -> 4 [] c = "5" -> 5 [] c = "6" -> 6 [] c = "7" -> 7
      [] c = "8" -> 8 [] c = "9" -> 9

\* the value of the longest prefix of digits of s, from the value acc on
RECURSIVE DigitsValue(_, _)
DigitsValue(s, acc) ==
    IF s = <<>> \/ Head(s) \notin Digits THEN acc
    ELSE DigitsValue(Tail(s), 10 * acc + DigitValue(Head(s)))

\* parseInt(value, 10): leading blanks are skipped, a sign is read, then the
\* digits up to the first other character; NaN without a digit
ParseInt(value) ==
    LET t == TrimStart(value)
        signed == t # <<>> /\ Head(t) \in {"+", "-"}
        d == IF signed THEN Tail(t) ELSE t
    IN IF d = <<>> \/ Head(d) \notin Digits
       THEN [nan |-> TRUE, val |-> 0]
       ELSE [nan |-> FALSE,
             val |-> IF signed /\ Head(t) = "-" THEN 0 - DigitsValue(d, 0)
                     ELSE DigitsValue(d, 0)]

\* a year check that accepts every number
validateYearAnyNumber(value) ==
    value = <<>> \/ ~ParseInt(value).nan

\* DateRangeSelector.validateYear
validateYear(value) ==
    \/ value = <<>>
    \/ LET year == ParseInt(value)
       IN ~year.nan /\ year.val >= MinYear /\ year.val <= CurrentYear

\* values of every length that one may try to enter into a year field
YearTexts ==
    {<<"2", "0", "2", "0", "a">>, <<"2", "0", "2", "0", "0">>,
     <<>>, <<"2">>, <<"2", "0", "2">>, <<"1", "7", "9", "9">>,
     <<"1", "8", "0", "0">>, <<"2", "0", "2", "0">>, <<"2", "0", "2", "6">>,
     <<"2", "0", "2", "7">>, <<"2", "0", "a", "0">>, <<"a", "b", "c", "d">>,
     <<"-", "2", "0", "0">>, <<SP, "2", "0", "2">>}

\* what a year field lets through to its onChange
YearInputs == {value \in YearTexts : Len(value) <= YearMaxLength}

\* what can be entered into the text input of the results limit
LimitInputs ==
    {<<>>, <<"9">>, <<"1", "0">>, <<"5", "5">>, <<"2", "0", "0">>,
     <<"2", "0", "1">>, <<"1", "e", "3">>, <<"-", "5", "0">>,
     <<"5", "0", ".", "5">>, <<"a", "b", "c">>}

\* the values the slider can report
SliderValues == {v \in LimitMin..LimitMax : (v - LimitMin) % LimitStep = 0}

\* the form's values as its effect hands them to the preview, re-rendered
FormShows(sp) ==
    /\ searchParams' = sp
    /\ preview' = RenderPreview(sp, activeTab)
    /\ UNCHANGED activeTab

\* handleTermChange(index, value), index counted from 1
handleTermChange(index, value) ==
    /\ index \in 1..Len(searchParams.terms)
    /\ FormShows([searchParams EXCEPT !.terms[index] = value])
    /\ UNCHANGED <<searchVars, sideVars, schedVars, aggVars>>

\* DatabaseSelector.handleChange through onChange={setDatabases}
handleDatabaseChange(databaseId) ==
    /\ FormShows([searchParams EXCEPT !.databases =
                     IF databaseId \in @ THEN @ \ {databaseId}
                     ELSE @ \cup {databaseId}])
    /\ UNCHANGED <<searchVars, sideVars, schedVars, aggVars>>

\* DateRangeSelector.handleStartYearChange through setStartYear
handleStartYearChange(value) ==
    /\ FormShows(IF validateYear(value)
                 THEN [searchParams EXCEPT !.startYear = Str(value)]
                 ELSE searchParams)
    /\ UNCHANGED <<searchVars, sideVars, schedVars, aggVars>>

\* DateRangeSelector.handleEndYearChange through setEndYear
handleEndYearChange(value) ==
    /\ FormShows(IF validateYear(value)
                 THEN [searchParams EXCEPT !.endYear = Str(value)]
                 ELSE searchParams)
    /\ UNCHANGED <<searchVars, sideVars, schedVars, aggVars>>

\* ResultsLimitInput.handleSliderChange through setMaxResults
handleSliderChange(newValue) ==
    /\ maxResults' = newValue
    /\ UNCHANGED <<searchRequest, loading, pageError, results, resultsTab,
                   searchResponse>>
    /\ UNCHANGED <<translateVars, sideVars, schedVars, aggVars>>

\* a text input that accepts every number
LimitAcceptedAnyNumber(value) == ~ParseInt(value).nan

\* the text input accepts the number parsed from value
LimitAccepted(value) ==
    LET newValue == ParseInt(value)
    IN ~newValue.nan /\ newValue.val >= LimitMin /\ newValue.val <= LimitMax

\* ResultsLimitInput.handleInputChange through setMaxResults
handleInputChange(value) ==
    /\ maxResults' = IF LimitAccepted(value) THEN ParseInt(value).val
                     ELSE maxResults
    /\ UNCHANGED <<searchRequest, loading, pageError, results, resultsTab,
                   searchResponse>>
    /\ UNCHANGED <<translateVars, sideVars, schedVars, aggVars>>

\* the positions of the terms that are not blank
ValidTermIndices(terms) ==
    SelectSeq([i \in 1..Len(terms) |-> i], LAMBDA i : Trim(terms[i]) # <<>>)

\* the SearchParams handleSubmit builds
SubmittedParams ==
    LET idx == ValidTermIndices(searchParams.terms)
    IN [terms      |-> [k \in 1..Len(idx) |-> searchParams.terms[idx[k]]],
        operators  |-> [k \in 1..Len(idx) |-> searchParams.operators[idx[k]]],
        fields     |-> [k \in 1..Len(idx) |-> searchParams.fields[idx[k]]],
        databases  |-> searchParams.databases,
        startYear  |-> searchParams.startYear,
        endYear    |-> searchParams.endYear,
        maxResults |-> maxResults]

\* no performSearch call was made
NoSearchRequest ==
    [sent |-> FALSE,
     params |-> [terms |-> <<>>, operators |-> <<>>, fields |-> <<>>,
                 databases |-> {}, startYear |-> "", endYear |-> "",
                 maxResults |-> 0]]

\* SearchForm.handleSubmit, onSearch = SearchPage.handleSearch up to the
\* await of performSearch
handleSubmit ==
    /\ searchRequest' = [sent |-> TRUE, params |-> SubmittedParams]
    /\ loading' = TRUE
    /\ pageError' = ""
    /\ UNCHANGED <<maxResults, results, resultsTab, searchResponse>>
    /\ UNCHANGED <<translateVars, sideVars, schedVars, aggVars>>

-----------------------------------------------------------------------------
(* Part V: the New Papers page (NewPapersPage.tsx) and mark-as-read *)

\* markingRead = null
NoPaper == <<>>

\* the ids of the papers: one per SeenResult row
PaperKeys == {<<sid, b, x>> : sid \in SearchIds, b \in SavedBackends,
                              x \in ExtIds}

\* getNewPapers: the rows that are not read
NewPapers(rows) == {Key(row) : row \in {r \in rows : ~r.isRead}}

\* markRead(seenResultId) on the rows of the store
ReadRows(rows, paperId) ==
    {IF Key(row) = paperId THEN [row EXCEPT !.isRead = TRUE] ELSE row :
        row \in rows}

IsRead(rows, paperId) == \A row \in rows : Key(row) = paperId => row.isRead

\* the numbers of the calls in flight
CallNumbers == {call.n : call \in markCalls}

\* the Mark Read button of a listed paper is shown and enabled
MarkReadEnabled(paperId) ==
    /\ papersError = ""
    /\ paperId \in papers
    /\ markingRead # paperId

\* handleMarkAsRead(paperId) up to the await of markAsRead; the call keeps
\* the papers of the render it was created in
handleMarkAsRead(paperId) ==
    /\ MarkReadEnabled(paperId)
    /\ Cardinality(markCalls) < MaxMarkCalls
    /\ markingRead' = paperId
    /\ markCalls' = markCalls \cup
           {[n |-> CHOOSE n \in 1..MaxMarkCalls : n \notin CallNumbers,
             id |-> paperId, papers |-> papers, phase |-> "sent",
             wasRead |-> FALSE]}
    /\ UNCHANGED <<papers, papersError>>
    /\ UNCHANGED <<translateVars, schedVars, aggVars, searchVars, lifeVars,
                   modalVars, moreVars>>

\* the store serves POST /mark_as_read/<id>: the row is read from then on, and
\* the answer is a success whether or not it was read before
MarkAsReadServed(call) ==
    /\ call \in markCalls
    /\ call.phase = "sent"
    /\ seenRows' = ReadRows(seenRows, call.id)
    /\ markCalls' = (markCalls \ {call}) \cup
           {[call EXCEPT !.phase = "served",
                         !.wasRead = IsRead(seenRows, call.id)]}
    /\ UNCHANGED <<now, searches, catalog, runs, sweeping, sweepQueue>>
    /\ UNCHANGED <<papers, markingRead, papersError>>
    /\ UNCHANGED <<pageVars, translateVars, aggVars, searchVars, lifeVars,
                   modalVars, moreVars>>

\* the list handleMarkAsRead sets: the papers of its render without paperId
PapersAfter(call) == call.papers \ {call.id}

\* handleMarkAsRead after the await resolved
MarkAsReadResolved(call) ==
    /\ call \in markCalls
    /\ call.phase = "served"
    /\ papers' = PapersAfter(call)
    /\ markingRead' = NoPaper
    /\ markCalls' = markCalls \ {call}
    /\ UNCHANGED papersError
    /\ UNCHANGED <<translateVars, schedVars, aggVars, searchVars, lifeVars,
                   modalVars, moreVars>>

\* handleMarkAsRead after the await rejected (the request or its response
\* was lost)
MarkAsReadRejected(call) ==
    /\ call \in markCalls
    /\ papersError' = "Failed to mark paper as read"
    /\ markingRead' = NoPaper
    /\ markCalls' = markCalls \ {call}
    /\ UNCHANGED papers
    /\ UNCHANGED <<translateVars, schedVars, aggVars, searchVars, lifeVars,
                   modalVars, moreVars>>

-----------------------------------------------------------------------------
(* Part VI: the life of a saved search: toggle and delete, on the Saved    *)
(* Searches page (SavedSearchesPage.tsx) and in the store                  *)

\* the ids of the saved searches of the specification LifeSpec
LifeIds == 1..(NumSearches + 1)

\* searchToDelete = null
NoSearch == 0

\* the rows the page lists after fetchSavedSearches
Listed(store) == [id \in DOMAIN store |-> [active |-> store[id].active]]

\* the toggle of the store: Active <-> Inactive
Toggled(store, id) == [store EXCEPT ![id].active = ~@]

\* the delete of the store and of the page: the saved search is gone
Without(store, id) == [i \in (DOMAIN store) \ {id} |-> store[i]]

\* the delete of the store cascades to the SeenResult rows
RowsWithout(rows, id) == {row \in rows : row.sid # id}

\* a page that leaves the row as it is
KeptRow(list, searchId) == list

\* handleToggleSearch: the row with active: !s.active
FlippedRow(list, searchId) ==
    [id \in DOMAIN list |->
        IF id = searchId THEN [list[id] EXCEPT !.active = ~@] ELSE list[id]]

\* the buttons of a listed row can be pressed
RowButtonsEnabled(searchId) ==
    /\ ButtonsEnabled
    /\ ~deleteDialogOpen
    /\ searchId \in DOMAIN pageSearches

\* handleToggleSearch up to the await
handleToggleSearch(searchId) ==
    /\ RowButtonsEnabled(searchId)
    /\ actionLoading' = searchId
    /\ request' = [id |-> searchId, kind |-> "toggle", phase |-> "sent",
                   result |-> NoResult]
    /\ UNCHANGED <<notification, storeVars, translateVars, aggVars, uiVars>>

\* POST /toggle_search/<id> is served
ToggleServed ==
    /\ request.kind = "toggle" /\ request.phase = "sent"
    /\ request.id \in DOMAIN searches
    /\ searches' = Toggled(searches, request.id)
    /\ request' = [request EXCEPT !.phase = "responded"]
    /\ UNCHANGED <<now, catalog, seenRows, runs, sweeping, sweepQueue>>
    /\ UNCHANGED <<actionLoading, notification, translateVars, aggVars, uiVars>>

\* handleToggleSearch after the await resolved
ToggleSearchResolved ==
    /\ request.kind = "toggle" /\ request.phase = "responded"
    /\ pageSearches' = FlippedRow(pageSearches, request.id)
    /\ notification' =
         Shown(IF request.id \in DOMAIN pageSearches
                  /\ pageSearches[request.id].active
               THEN "deactivated" ELSE "activated", "success")
    /\ actionLoading' = NoAction
    /\ request' = NoRequest
    /\ UNCHANGED <<deleteDialogOpen, searchToDelete>>
    /\ UNCHANGED <<storeVars, translateVars, aggVars, searchVars, papersVars,
                   modalVars, moreVars>>

\* openDeleteDialog
openDeleteDialog(searchId) ==
    /\ RowButtonsEnabled(searchId)
    /\ searchToDelete' = searchId
    /\ deleteDialogOpen' = TRUE
    /\ UNCHANGED pageSearches
    /\ UNCHANGED <<schedVars, translateVars, aggVars, searchVars, papersVars,
                   modalVars, moreVars>>

\* the dialog's onClose and its Cancel button
closeDeleteDialog ==
    /\ deleteDialogOpen
    /\ deleteDialogOpen' = FALSE
    /\ UNCHANGED <<pageSearches, searchToDelete>>
    /\ UNCHANGED <<schedVars, translateVars, aggVars, searchVars, papersVars,
                   modalVars, moreVars>>

\* handleDeleteSearch up to the await
handleDeleteSearch ==
    /\ deleteDialogOpen
    /\ ButtonsEnabled
    /\ searchToDelete # NoSearch
    /\ actionLoading' = searchToDelete
    /\ request' = [id |-> searchToDelete, kind |-> "delete", phase |-> "sent",
                   result |-> NoResult]
    /\ UNCHANGED <<notification, storeVars, translateVars, aggVars, uiVars>>

\* POST /delete_search/<id> is served
DeleteServed ==
    /\ request.kind = "delete" /\ request.phase = "sent"
    /\ request.id \in DOMAIN searches
    /\ searches' = Without(searches, request.id)
    /\ seenRows' = RowsWithout(seenRows, request.id)
    /\ request' = [request EXCEPT !.phase = "responded"]
    /\ UNCHANGED <<now, catalog, runs, sweeping, sweepQueue>>
    /\ UNCHANGED <<actionLoading, notification, translateVars, aggVars, uiVars>>

\* handleDeleteSearch after the await resolved, then finally
DeleteSearchResolved ==
    /\ request.kind = "delete" /\ request.phase = "responded"
    /\ pageSearches' = Without(pageSearches, request.id)
    /\ notification' = Shown("deleted", "success")
    /\ actionLoading' = NoAction
    /\ deleteDialogOpen' = FALSE
    /\ searchToDelete' = NoSearch
    /\ request' = NoRequest
    /\ UNCHANGED <<storeVars, translateVars, aggVars, searchVars, papersVars,
                   modalVars, moreVars>>

\* handleDeleteSearch after the await rejected, then finally
DeleteSearchRejected ==
    /\ request.kind = "delete" /\ request.phase = "sent"
    /\ notification' = Shown("failed", "error")
    /\ actionLoading' = NoAction
    /\ deleteDialogOpen' = FALSE
    /\ searchToDelete' = NoSearch
    /\ request' = NoRequest
    /\ UNCHANGED pageSearches
    /\ UNCHANGED <<storeVars, translateVars, aggVars, searchVars, papersVars,
                   modalVars, moreVars>>

\* the sweep drops a selected saved search that is no longer stored: step 1
\* of its execution has no stored state to start from
ScheduledRunDropped(sid) ==
    /\ sid \in sweepQueue
    /\ sid \notin DOMAIN searches
    /\ sweepQueue' = sweepQueue \ {sid}
    /\ UNCHANGED <<now, searches, catalog, seenRows, runs, sweeping>>
    /\ UNCHANGED <<pageVars, translateVars, aggVars, uiVars>>

-----------------------------------------------------------------------------
(* Part VII: the response of a direct search on the search page            *)
(* (SearchPage.handleSearch) and its display (ResultsContainer,            *)
(* DatabaseResults)                                                        *)

NoResponse == [arrived |-> FALSE, results |-> NoOutcomes]

\* how the response spells an error descriptor: an object holding the
\* reason, or the reason string itself
DescriptorForms == {"object", "string"}

\* the length of a reason string
ReasonLength(reason) ==
    CASE reason = "failed"  -> 6
      [] reason = "timeout" -> 7

\* the value of one backend key of response.results
Entry(outcome, form) ==
    IF outcome.kind = "records"
    THEN [type |-> "array", items |-> outcome.records,
          length |-> Cardinality(outcome.records)]
    ELSE IF form = "string"
         THEN [type |-> "string", items |-> {},
               length |-> ReasonLength(outcome.reason)]
         ELSE [type |-> "object", items |-> {}, length |-> 0]

\* response.results of the map the aggregator returned
Entries(outcomes, form) ==
    [b \in DOMAIN outcomes |-> Entry(outcomes[b], form)]

\* results.<b>?.length || 0: an absent key and an object have no length
LengthOrZero(res, b) == IF b \in DOMAIN res THEN res[b].length ELSE 0

\* totalResults: the lengths of Object.values(results) summed up
TotalResults(res) ==
    LengthOrZero(res, "pubmed") + LengthOrZero(res, "arxiv")
        + LengthOrZero(res, "gim")

\* DatabaseResults of the value of one key: the message for no results,
\* the cards of results.map, or the TypeError of a value without map
DatabaseResultsOf(entry) ==
    IF entry.type # "object" /\ entry.length = 0 THEN "empty"
    ELSE IF entry.type = "array" THEN "cards"
    ELSE "crash"

\* the tabs: 0 All Results, 1 PubMed, 2 arXiv, 3 GIM
TabOfBackend(b) ==
    CASE b = "pubmed" -> 1 [] b = "arxiv" -> 2 [] b = "gim" -> 3

\* what a tab panel holds for backend b: "none" where nothing is rendered
PanelOf(res, tab, b) ==
    CASE tab = 0 ->
           IF b \in DOMAIN res /\ res[b].type # "object" /\ res[b].length > 0
           THEN DatabaseResultsOf(res[b]) ELSE "none"
      [] tab = TabOfBackend(b) ->
           IF b \in DOMAIN res THEN DatabaseResultsOf(res[b]) ELSE "none"
      [] OTHER -> "none"

\* the render of ResultsContainer throws
Crashes(res, tab) == \E b \in Databases : PanelOf(res, tab, b) = "crash"

\* what ResultsContainer displays of results on the tab: nothing when the
\* render throws, else the tab labels, the panels and the cards of every
\* backend and the message of the All Results tab
ResultsView(res, tab) ==
    IF Crashes(res, tab)
    THEN [crashed |-> TRUE, total |-> 0,
          labels |-> [b \in Databases |-> 0],
          panels |-> [b \in Databases |-> "none"],
          cards |-> [b \in Databases |-> {}],
          noResults |-> FALSE]
    ELSE [crashed |-> FALSE, total |-> TotalResults(res),
          labels |-> [b \in Databases |-> LengthOrZero(res, b)],
          panels |-> [b \in Databases |-> PanelOf(res, tab, b)],
          cards |-> [b \in Databases |->
                       IF PanelOf(res, tab, b) = "cards" THEN res[b].items
                       ELSE {}],
          noResults |-> tab = 0 /\ TotalResults(res) = 0]

\* POST /search reaches the server, which hands the query to the aggregator
SearchServed ==
    /\ searchRequest.sent /\ loading
    /\ searchResponse = NoResponse
    /\ aggStatus = "idle"
    /\ searchRequest.params.databases \in BackendSets
    /\ aggregate(searchRequest.params.databases)

\* the server answers with the map of the aggregator
SearchResponded ==
    /\ aggStatus = "done"
    /\ \E form \in DescriptorForms :
         searchResponse' = [arrived |-> TRUE,
                            results |-> Entries(aggResult, form)]
    /\ aggStatus' = "idle"
    /\ UNCHANGED <<aggBackends, aggTasks, aggResult>>
    /\ UNCHANGED <<maxResults, searchRequest, loading, pageError, results,
                   resultsTab>>
    /\ UNCHANGED <<translateVars, schedVars, sideVars>>

\* handleSearch after the await resolved, then finally; ResultsContainer is
\* mounted anew, on its first tab
SearchResolved ==
    /\ loading
    /\ searchResponse.arrived
    /\ results' = [shown |-> TRUE, outcomes |-> searchResponse.results]
    /\ resultsTab' = 0
    /\ loading' = FALSE
    /\ searchResponse' = NoResponse
    /\ UNCHANGED <<maxResults, searchRequest, pageError>>
    /\ UNCHANGED <<translateVars, schedVars, aggVars, sideVars>>

\* handleSearch after the await rejected, then finally
SearchRejected ==
    /\ loading
    /\ searchRequest.sent
    /\ searchResponse = NoResponse
    /\ aggStatus = "idle"
    /\ pageError' = "An error occurred during search"
    /\ loading' = FALSE
    /\ UNCHANGED <<maxResults, searchRequest, results, resultsTab,
                   searchResponse>>
    /\ UNCHANGED <<translateVars, schedVars, aggVars, sideVars>>

\* ResultsContainer is on the screen
ResultsShown == results.shown /\ ~loading

\* ResultsContainer.handleTabChange
handleResultsTabChange(newValue) ==
    /\ ResultsShown
    /\ ~Crashes(results.outcomes, resultsTab)
    /\ resultsTab' = newValue
    /\ UNCHANGED <<maxResults, searchRequest, loading, pageError, results,
                   searchResponse>>
    /\ UNCHANGED <<translateVars, schedVars, aggVars, sideVars>>

-----------------------------------------------------------------------------
(* Part VIII: the Save Search dialog (SaveSearchModal, opened from         *)
(* ResultsContainer)                                                       *)

\* useState('monthly')
InitialFrequency == "monthly"

\* the values of the radio buttons of the frequency
FrequencyOptions == {"daily", "weekly", "monthly"}

Alerts == <<"alerts">>

\* what can be typed into the name field
NameInputs == {<<>>, <<SP>>, Alerts, <<SP>> \o Alerts \o <<SP>>}

\* what can be typed into the email field
EmailInputs == {<<>>, <<"a@b.org">>}

NoSaveRequest ==
    [n |-> 0,
     data |-> [search_name |-> "", databases |-> {}, frequency |-> "",
               email |-> ""]]

\* a name check that takes a blank name for a name
NameGivenUntrimmed(name) == name # <<>>

\* if (!searchName.trim()) fails
NameGiven(name) == Trim(name) # <<>>

\* ResultsContainer.handleSaveSearch
handleSaveSearch ==
    /\ ~saveModalOpen
    /\ saveModalOpen' = TRUE
    /\ UNCHANGED <<saveNotified, searchName, email, saveFrequency,
                   selectedDatabases, saveLoading, saveError, saveRequest>>
    /\ UNCHANGED <<translateVars, schedVars, aggVars, searchVars, papersVars,
                   lifeVars, moreVars>>

\* onChange of the name field
setSearchName(value) ==
    /\ saveModalOpen
    /\ searchName' = value
    /\ UNCHANGED <<saveModalOpen, saveNotified, email, saveFrequency,
                   selectedDatabases, saveLoading, saveError, saveRequest>>
    /\ UNCHANGED <<translateVars, schedVars, aggVars, searchVars, papersVars,
                   lifeVars, moreVars>>

\* onChange of the email field
setEmail(value) ==
    /\ saveModalOpen
    /\ email' = value
    /\ UNCHANGED <<saveModalOpen, saveNotified, searchName, saveFrequency,
                   selectedDatabases, saveLoading, saveError, saveRequest>>
    /\ UNCHANGED <<translateVars, schedVars, aggVars, searchVars, papersVars,
                   lifeVars, moreVars>>

\* onChange of the RadioGroup
setFrequency(value) ==
    /\ saveModalOpen
    /\ saveFrequency' = value
    /\ UNCHANGED <<saveModalOpen, saveNotified, searchName, email,
                   selectedDatabases, saveLoading, saveError, saveRequest>>
    /\ UNCHANGED <<translateVars, schedVars, aggVars, searchVars, papersVars,
                   lifeVars, moreVars>>

\* SaveSearchModal.handleDatabaseChange
handleMonitoredChange(db) ==
    /\ saveModalOpen
    /\ selectedDatabases' = IF db \in selectedDatabases
                            THEN selectedDatabases \ {db}
                            ELSE selectedDatabases \cup {db}
    /\ UNCHANGED <<saveModalOpen, saveNotified, searchName, email, saveFrequency,
                   saveLoading, saveError, saveRequest>>
    /\ UNCHANGED <<translateVars, schedVars, aggVars, searchVars, papersVars,
                   lifeVars, moreVars>>

\* SaveSearchModal.handleSubmit up to the await of saveSearch
handleSaveSubmit ==
    /\ saveModalOpen
    /\ ~saveLoading
    /\ saveRequest.n < MaxSaves
    /\ IF ~NameGiven(searchName)
       THEN /\ saveError' = "Search name is required"
            /\ UNCHANGED <<saveLoading, saveRequest>>
       ELSE IF selectedDatabases = {}
       THEN /\ saveError' = "Please select at least one database"
            /\ UNCHANGED <<saveLoading, saveRequest>>
       ELSE /\ saveLoading' = TRUE
            /\ saveError' = ""
            /\ saveRequest' =
                 [n |-> saveRequest.n + 1,
                  data |-> [search_name |-> Str(searchName),
                            databases |-> selectedDatabases,
                            frequency |-> saveFrequency,
                            email |-> Str(email)]]
    /\ UNCHANGED <<saveModalOpen, saveNotified, searchName, email, saveFrequency,
                   selectedDatabases>>
    /\ UNCHANGED <<translateVars, schedVars, aggVars, searchVars, papersVars,
                   lifeVars, moreVars>>

\* handleSubmit after the await resolved: onSuccess, onClose, then finally
SaveResolved ==
    /\ saveLoading
    /\ saveNotified' = TRUE
    /\ saveModalOpen' = FALSE
    /\ saveLoading' = FALSE
    /\ UNCHANGED <<searchName, email, saveFrequency, selectedDatabases, saveError,
                   saveRequest>>
    /\ UNCHANGED <<translateVars, schedVars, aggVars, searchVars, papersVars,
                   lifeVars, moreVars>>

\* handleSubmit after the await rejected, then finally
SaveRejected ==
    /\ saveLoading
    /\ saveError' = "Failed to save search"
    /\ saveLoading' = FALSE
    /\ UNCHANGED <<saveModalOpen, saveNotified, searchName, email, saveFrequency,
                   selectedDatabases, saveRequest>>
    /\ UNCHANGED <<translateVars, schedVars, aggVars, searchVars, papersVars,
                   lifeVars, moreVars>>

\* Cancel and the dialog's onClose, both off while loading
closeSaveModal ==
    /\ saveModalOpen
    /\ ~saveLoading
    /\ saveModalOpen' = FALSE
    /\ UNCHANGED <<saveNotified, searchName, email, saveFrequency,
                   selectedDatabases, saveLoading, saveError, saveRequest>>
    /\ UNCHANGED <<translateVars, schedVars, aggVars, searchVars, papersVars,
                   lifeVars, moreVars>>

\* handleCloseNotification of ResultsContainer
closeSaveNotification ==
    /\ saveNotified
    /\ saveNotified' = FALSE
    /\ UNCHANGED <<saveModalOpen, searchName, email, saveFrequency,
                   selectedDatabases, saveLoading, saveError, saveRequest>>
    /\ UNCHANGED <<translateVars, schedVars, aggVars, searchVars, papersVars,
                   lifeVars, moreVars>>

-----------------------------------------------------------------------------
(* Part IX: the request of a direct search (searchService.performSearch)   *)
(* and SearchPage.handleSearch when searches overlap: the Search button of *)
(* the form stays enabled while a request is out, so several calls can     *)
(* wait for their responses                                                *)

\* searchQuery = ''
NoLabel == <<>>

\* params.terms.join(' ')
JoinTerms(terms) ==
    Join([i \in 1..Len(terms) |-> [kind |-> "term", text |-> terms[i]]])

\* mapFieldToBackend: fieldMap[field] || ''
mapFieldToBackend(field) ==
    CASE field = "title"          -> <<"[", "Title", "]">>
      [] field = "title_abstract" -> <<"[", "Title/Abstract", "]">>
      [] field = "abstract"       -> <<"[", "Abstract", "]">>
      [] field = "author"         -> <<"[", "Author", "]">>
      [] field = "journal"        -> <<"[", "Journal", "]">>
      [] field = "keyword"        -> <<"[", "Keyword", "]">>
      [] field = "mesh"           -> <<"[", "MeSH", SP, "Terms", "]">>
      [] OTHER                    -> <<>>

\* formData.append(name, value)
FormEntry(name, value) == [name |-> name, value |-> value]

\* the entries of the field of term i, appended only when the field is set
FieldEntriesIfSet(params, i) ==
    IF Truthy(params.fields[i])
    THEN <<FormEntry("field", mapFieldToBackend(params.fields[i]))>>
    ELSE <<>>

\* the entries of the field of term i: the mapped field, or '' for no field
FieldEntries(params, i) ==
    IF Truthy(params.fields[i])
    THEN <<FormEntry("field", mapFieldToBackend(params.fields[i]))>>
    ELSE <<FormEntry("field", <<>>)>>

\* the body of params.terms.forEach((term, i) => { ... })
TermEntries(params, i) ==
    <<FormEntry("term", params.terms[i])>>
    \o (IF Truthy(params.operators[i])
        THEN <<FormEntry("boolean_operator", <<params.operators[i]>>)>>
        ELSE <<>>)
    \o FieldEntries(params, i)

RECURSIVE AllTermEntries(_, _)
AllTermEntries(params, i) ==
    IF i > Len(params.terms) THEN <<>>
    ELSE TermEntries(params, i) \o AllTermEntries(params, i + 1)

\* params.databases.forEach(db => formData.append('databases', db))
DatabaseEntries(params) ==
    LET entry(db) == IF db \in params.databases
                     THEN <<FormEntry("databases", <<db>>)>> ELSE <<>>
    IN entry("pubmed") \o entry("arxiv") \o entry("gim")

\* the FormData performSearch posts to /search
FormDataOf(params) ==
    AllTermEntries(params, 1)
    \o DatabaseEntries(params)
    \o (IF Truthy(params.startYear)
        THEN <<FormEntry("start_year", <<params.startYear>>)>> ELSE <<>>)
    \o (IF Truthy(params.endYear)
        THEN <<FormEntry("end_year", <<params.endYear>>)>> ELSE <<>>)
    \o <<FormEntry("max_results", <<ToString(params.maxResults)>>)>>

\* the numbers of the calls waiting
SearchCallNumbers == {call.n : call \in searchCalls}

\* the response of a call that was not answered yet
NoSearchAnswer == [query |-> <<>>, results |-> NoOutcomes]

\* SearchForm.handleSubmit, then SearchPage.handleSearch up to the await of
\* performSearch, which posts the FormData
handleSearch ==
    /\ Cardinality(searchCalls) < MaxSearchCalls
    /\ searchCalls' = searchCalls \cup
           {[n |-> CHOOSE n \in 1..MaxSearchCalls : n \notin SearchCallNumbers,
             params |-> SubmittedParams,
             formData |-> FormDataOf(SubmittedParams),
             phase |-> "sent", response |-> NoSearchAnswer]}
    /\ searchRequest' = [sent |-> TRUE, params |-> SubmittedParams]
    /\ loading' = TRUE
    /\ pageError' = ""
    /\ UNCHANGED <<maxResults, results, resultsTab, searchResponse,
                   searchQuery>>
    /\ UNCHANGED <<translateVars, schedVars, aggVars, papersVars, lifeVars,
                   modalVars, fetchVars, htmlVars>>

\* the query string the server reports in its response: the query it ran
QueryEcho(params) == BuildQuery("pubmed", params)

\* the server answers POST /search with one entry per requested backend,
\* and with or without the query string
SearchAnswered(call) ==
    /\ call \in searchCalls
    /\ call.phase = "sent"
    /\ \E query \in {<<>>, QueryEcho(call.params)} :
         searchCalls' = (searchCalls \ {call}) \cup
           {[call EXCEPT
               !.phase = "served",
               !.response =
                  [query |-> query,
                   results |->
                      Entries([b \in call.params.databases |->
                                  Outcome([state |-> "ok", records |-> {1}])],
                              "object")]]}
    /\ UNCHANGED <<searchVars, searchQuery>>
    /\ UNCHANGED <<translateVars, schedVars, aggVars, papersVars, lifeVars,
                   modalVars, fetchVars, htmlVars>>

\* response.query || params.terms.join(' ')
LabelOf(call) ==
    IF call.response.query # <<>> THEN call.response.query
    ELSE JoinTerms(call.params.terms)

\* handleSearch after the await resolved, then finally; ResultsContainer is
\* mounted anew when the spinner had taken its place
SearchCallResolved(call) ==
    /\ call \in searchCalls
    /\ call.phase = "served"
    /\ results' = [shown |-> TRUE, outcomes |-> call.response.results]
    /\ searchQuery' = LabelOf(call)
    /\ loading' = FALSE
    /\ resultsTab' = (IF ResultsShown THEN resultsTab ELSE 0)
    /\ searchCalls' = searchCalls \ {call}
    /\ UNCHANGED <<maxResults, searchRequest, pageError, searchResponse>>
    /\ UNCHANGED <<translateVars, schedVars, aggVars, papersVars, lifeVars,
                   modalVars, fetchVars, htmlVars>>

\* handleSearch after the await rejected (the request or its response was
\* lost), then finally
SearchCallRejected(call) ==
    /\ call \in searchCalls
    /\ pageError' = "An error occurred during search"
    /\ loading' = FALSE
    /\ searchCalls' = searchCalls \ {call}
    /\ UNCHANGED <<maxResults, searchRequest, results, resultsTab,
                   searchResponse, searchQuery>>
    /\ UNCHANGED <<translateVars, schedVars, aggVars, papersVars, lifeVars,
                   modalVars, fetchVars, htmlVars>>

-----------------------------------------------------------------------------
(* Part X: the filters of the New Papers page (NewPapersPage.tsx:          *)
(* fetchData, run by the effect on selectedSearchId and selectedDatabase). *)
(* The filter selects stay enabled while a fetch is out, so several        *)
(* fetchData calls can wait for their responses                            *)

\* the value of the MenuItem All Saved Searches / All Databases
NoFilter == <<>>

\* the values of the MenuItems of the saved searches: search.id.toString()
SearchIdTexts == {<<ToString(id)>> : id \in SearchIds}

\* the values of the MenuItems of the databases
DatabaseTexts == {<<b>> : b \in Databases}

\* the filters fetchData builds from the two selected values of its render
Filters(searchIdText, databaseText) ==
    [search_id |-> IF searchIdText # <<>> THEN ParseInt(searchIdText).val
                   ELSE 0,
     database  |-> IF databaseText # <<>> THEN databaseText[1] ELSE ""]

\* GET /new_papers?search_id=..&database=..: the unread rows of the saved
\* search and of the database, where the parameter is there
FilteredPapers(rows, filters) ==
    {Key(row) : row \in
        {r \in rows :
            /\ ~r.isRead
            /\ filters.search_id # 0 => r.sid = filters.search_id
            /\ filters.database # "" => r.backend = filters.database}}

\* the numbers of the fetchData calls waiting
FetchNumbers == {call.n : call \in fetches}

\* a fetchData call up to its first await
FetchCall(n, searchIdText, databaseText) ==
    [n |-> n, filters |-> Filters(searchIdText, databaseText),
     phase |-> "searches", response |-> {}]

\* the effect runs fetchData with the selected values of the new render
fetchData(searchIdText, databaseText) ==
    /\ Cardinality(fetches) < MaxFetches
    /\ papersLoading' = TRUE
    /\ papersError' = ""
    /\ fetches' = fetches \cup
           {FetchCall(CHOOSE n \in 1..MaxFetches : n \notin FetchNumbers,
                      searchIdText, databaseText)}
    /\ UNCHANGED <<papers, markingRead, markCalls>>
    /\ UNCHANGED <<translateVars, schedVars, aggVars, searchVars, lifeVars,
                   modalVars, overlapVars, htmlVars>>

\* handleSearchChange, the re-render and the effect
handleSearchChange(value) ==
    /\ value # selectedSearchId
    /\ selectedSearchId' = value
    /\ UNCHANGED selectedDatabase
    /\ fetchData(value, selectedDatabase)

\* handleDatabaseChange of the page, the re-render and the effect
handleFilterDatabaseChange(value) ==
    /\ value # selectedDatabase
    /\ selectedDatabase' = value
    /\ UNCHANGED selectedSearchId
    /\ fetchData(selectedSearchId, value)

\* getSavedSearches resolved: setSearches, then getNewPapers(filters) is sent
SavedSearchesFetched(call) ==
    /\ call \in fetches
    /\ call.phase = "searches"
    /\ fetches' = (fetches \ {call}) \cup {[call EXCEPT !.phase = "papers"]}
    /\ UNCHANGED <<selectedSearchId, selectedDatabase, papersLoading>>
    /\ UNCHANGED <<translateVars, schedVars, aggVars, searchVars, papersVars,
                   lifeVars, modalVars, overlapVars, htmlVars>>

\* the server answers GET /new_papers
NewPapersServed(call) ==
    /\ call \in fetches
    /\ call.phase = "papers"
    /\ fetches' = (fetches \ {call}) \cup
           {[call EXCEPT !.phase = "served",
                         !.response = FilteredPapers(seenRows, call.filters)]}
    /\ UNCHANGED <<selectedSearchId, selectedDatabase, papersLoading>>
    /\ UNCHANGED <<translateVars, schedVars, aggVars, searchVars, papersVars,
                   lifeVars, modalVars, overlapVars, htmlVars>>

\* fetchData after getNewPapers resolved: setPapers, then finally
FetchResolved(call) ==
    /\ call \in fetches
    /\ call.phase = "served"
    /\ papers' = call.response
    /\ papersLoading' = FALSE
    /\ fetches' = fetches \ {call}
    /\ UNCHANGED <<selectedSearchId, selectedDatabase>>
    /\ UNCHANGED <<markingRead, papersError, markCalls>>
    /\ UNCHANGED <<translateVars, schedVars, aggVars, searchVars, lifeVars,
                   modalVars, overlapVars, htmlVars>>

\* fetchData after one of its requests rejected: catch, then finally
FetchRejected(call) ==
    /\ call \in fetches
    /\ papersError' = "Failed to load new papers"
    /\ papersLoading' = FALSE
    /\ fetches' = fetches \ {call}
    /\ UNCHANGED <<selectedSearchId, selectedDatabase>>
    /\ UNCHANGED <<papers, markingRead, markCalls>>
    /\ UNCHANGED <<translateVars, schedVars, aggVars, searchVars, lifeVars,
                   modalVars, overlapVars, htmlVars>>

-----------------------------------------------------------------------------
(* Part XI: the HTML search form (templates/index.html): the query boxes   *)
(* of its databases, each a preview and an editor behind an Edit button    *)

HtmlDatabases == {"pubmed", "gim"}

\* the values of the options of the field select
HtmlFieldValues == {<<>>, <<"[", "Title", "]">>}

\* a .search-term row as add-term clones it: the term emptied, the selects
\* on their first option
NewHtmlRow == [term |-> <<>>, operator |-> "AND", field |-> <<>>]

\* the pieces buildQueryPreview pushes for the row at position i (operators
\* [index + 1] is the select of the next row)
HtmlRowParts(database, form, i) ==
    IF IsActive(form.rows[i].term)
    THEN <<[kind |-> "term",
            text |-> IF database = "pubmed"
                     THEN <<"(">> \o form.rows[i].term \o form.rows[i].field
                          \o <<")">>
                     ELSE IF form.rows[i].field # <<>>
                          THEN form.rows[i].field \o <<":", QUOTE>>
                               \o form.rows[i].term \o <<QUOTE>>
                          ELSE form.rows[i].term]>>
         \o (IF i + 1 <= Len(form.rows)
             THEN <<[kind |-> "op", text |-> <<form.rows[i + 1].operator>>]>>
             ELSE <<>>)
    ELSE <<>>

RECURSIVE HtmlTermParts(_, _, _)
HtmlTermParts(database, form, i) ==
    IF i > Len(form.rows) THEN <<>>
    ELSE HtmlRowParts(database, form, i)
           \o HtmlTermParts(database, form, i + 1)

\* the date clause buildQueryPreview pushes
HtmlDateParts(database, form) ==
    IF Truthy(form.startYear) /\ Truthy(form.endYear)
    THEN <<[kind |-> "date",
            text |-> IF database = "pubmed"
                     THEN <<SP, "AND", SP, "(", form.startYear, ":",
                            form.endYear, "[", "dp", "]", ")">>
                     ELSE <<SP, "AND", SP, "year", ":", form.startYear, "-",
                            form.endYear>>]>>
    ELSE <<>>

\* buildQueryPreview(database) over the values of the form
buildQueryPreview(database, form) ==
    Join(HtmlTermParts(database, form, 1) \o HtmlDateParts(database, form))

\* a regeneration that does not look at the class edited
RegeneratedAlways(box, database, form) ==
    [box EXCEPT !.preview = buildQueryPreview(database, form),
                !.editor = buildQueryPreview(database, form)]

\* the body of the forEach of updateQueryPreviews for one box
Regenerated(box, database, form) ==
    IF ~box.edited
    THEN [box EXCEPT !.preview = buildQueryPreview(database, form),
                     !.editor = buildQueryPreview(database, form)]
    ELSE box

\* updateQueryPreviews over the boxes as they are
updateQueryPreviews(boxes, form) ==
    [db \in HtmlDatabases |-> Regenerated(boxes[db], db, form)]

\* the form as the page loads it: one row, and the first updateQueryPreviews
HtmlLoaded ==
    /\ htmlForm = [rows |-> <<NewHtmlRow>>, startYear |-> "", endYear |-> ""]
    /\ queryBox = updateQueryPreviews(
                     [db \in HtmlDatabases |->
                        [previewHidden |-> FALSE, editorHidden |-> TRUE,
                         edited |-> FALSE, preview |-> <<>>,
                         editor |-> <<>>]],
                     htmlForm)

\* the editor of a database is on the screen
EditorOpen(boxes, db) == ~boxes[db].editorHidden

\* the click handler of a toggle-edit button
toggleEdit(db) ==
    /\ queryBox' =
         [queryBox EXCEPT
            ![db] = [@ EXCEPT !.previewHidden = ~@,
                              !.editorHidden = ~@,
                              !.edited = ~(~queryBox[db].previewHidden)]]
    /\ UNCHANGED htmlForm
    /\ UNCHANGED <<translateVars, schedVars, aggVars, searchVars, papersVars,
                   lifeVars, modalVars, overlapVars, fetchVars>>

\* typing into the editor of a database: its own input listener copies the
\* text to the preview, then the event reaches the input listener of the
\* form, updateQueryPreviews
editorInput(db, value) ==
    /\ EditorOpen(queryBox, db)
    /\ queryBox' =
         updateQueryPreviews(
            [queryBox EXCEPT ![db] = [@ EXCEPT !.editor = value,
                                               !.preview = value]],
            htmlForm)
    /\ UNCHANGED htmlForm
    /\ UNCHANGED <<translateVars, schedVars, aggVars, searchVars, papersVars,
                   lifeVars, modalVars, overlapVars, fetchVars>>

\* the form holds new values: the input/change listener of the form
HtmlFormChanged(form) ==
    /\ htmlForm' = form
    /\ queryBox' = updateQueryPreviews(queryBox, form)
    /\ UNCHANGED <<translateVars, schedVars, aggVars, searchVars, papersVars,
                   lifeVars, modalVars, overlapVars, fetchVars>>

\* typing into the term field of row i
termInput(i, value) ==
    /\ i \in 1..Len(htmlForm.rows)
    /\ value # htmlForm.rows[i].term
    /\ HtmlFormChanged([htmlForm EXCEPT !.rows[i].term = value])

\* choosing an option of the field select of row i
fieldChange(i, value) ==
    /\ i \in 1..Len(htmlForm.rows)
    /\ value # htmlForm.rows[i].field
    /\ HtmlFormChanged([htmlForm EXCEPT !.rows[i].field = value])

\* the click handler of add-term
addTerm ==
    /\ Len(htmlForm.rows) < MaxHtmlRows
    /\ HtmlFormChanged([htmlForm EXCEPT !.rows = Append(@, NewHtmlRow)])

-----------------------------------------------------------------------------
(* Specifications *)

vars == <<translateVars, schedVars, aggVars, uiVars>>

\* the preview at rest: an empty SearchParams, nothing shown
TranslateIdle ==
    /\ searchParams = ParamsOf(<<>>, "", "")
    /\ activeTab = 0
    /\ preview = RenderPreview(searchParams, 0)

PageInit ==
    /\ request = NoRequest
    /\ actionLoading = NoAction
    /\ notification = [message |-> "", severity |-> "success"]
    /\ pageSearches = Listed(searches)
    /\ deleteDialogOpen = FALSE
    /\ searchToDelete = NoSearch

\* saved searches that were never run, the scheduler between two sweeps
StoreInit ==
    /\ now = 0
    /\ searches \in [SearchIds -> [active : BOOLEAN, frequency : Frequencies,
                                   lastCheckedAt : {NoCheck}]]
    /\ seenRows = {}
    /\ runs = {}
    /\ sweeping = FALSE
    /\ sweepQueue = {}

EmptyCatalog == catalog = [b \in SavedBackends |-> {}]

AllDaily == \A id \in SearchIds : searches[id].frequency = "daily"

SchedIdle ==
    /\ StoreInit /\ EmptyCatalog /\ AllDaily
    /\ \A id \in SearchIds : searches[id].active
    /\ PageInit

AggIdle ==
    /\ aggBackends = {}
    /\ aggTasks = [b \in Databases |-> NoTask]
    /\ aggStatus = "idle"
    /\ aggResult = NoOutcomes

NoResults == [shown |-> FALSE, outcomes |-> NoOutcomes]

SearchPageIdle ==
    /\ searchResponse = NoResponse
    /\ searchRequest = NoSearchRequest
    /\ loading = FALSE
    /\ pageError = ""
    /\ results = NoResults
    /\ resultsTab = 0

FormIdle ==
    /\ maxResults = InitialMaxResults
    /\ SearchPageIdle

\* the New Papers page with nothing listed
PapersIdle ==
    /\ papers = {}
    /\ markingRead = NoPaper
    /\ papersError = ""
    /\ markCalls = {}

\* the Save Search dialog as it is mounted for a search over databases
ModalMounted(databases) ==
    /\ saveModalOpen = FALSE
    /\ saveNotified = FALSE
    /\ searchName = <<>>
    /\ email = <<>>
    /\ saveFrequency = InitialFrequency
    /\ selectedDatabases = databases
    /\ saveLoading = FALSE
    /\ saveError = ""
    /\ saveRequest = NoSaveRequest

ModalIdle == ModalMounted(Databases)

\* no direct search was made
OverlapIdle ==
    /\ searchCalls = {}
    /\ searchQuery = NoLabel

\* the New Papers page with no filter set and no fetch out
FetchIdle ==
    /\ selectedSearchId = NoFilter
    /\ selectedDatabase = NoFilter
    /\ papersLoading = FALSE
    /\ fetches = {}

HtmlIdle == HtmlLoaded

MoreIdle == OverlapIdle /\ FetchIdle /\ HtmlIdle

UiIdle == FormIdle /\ PapersIdle /\ ModalIdle /\ MoreIdle

\* the search form as it is mounted: one empty term row, every database
FormMounted ==
    /\ searchParams = ParamsOf(<<[text |-> <<>>, op |-> "AND", field |-> ""]>>,
                               "", "")
    /\ activeTab = 0
    /\ preview = RenderPreview(searchParams, 0)

\* Spec: the query preview over the bounded inputs
Init == TranslateInit /\ SchedIdle /\ AggIdle /\ UiIdle

Next == TranslateNext

Spec == Init /\ [][Next]_vars

\* the executions and the page's requests, common to SchedSpec and DiffSpec
RunNext ==
    \/ SweepSelect
    \/ SweepDone
    \/ \E sid \in SearchIds : ScheduledRunStart(sid)
    \/ ManualRunStart
    \/ TestRunStart
    \/ \E r \in runs : RunFinish(r)
    \/ \E searchId \in SearchIds : handleRunSearch(searchId)
    \/ \E searchId \in SearchIds : handleTestAlert(searchId)
    \/ RunSearchResolved
    \/ TestAlertResolved
    \/ RequestRejected

\* SchedSpec: the scheduler over time; saved searches of every frequency,
\* active or not, over backends that return one record each
SchedInit ==
    /\ StoreInit
    /\ catalog = [b \in SavedBackends |-> {1}]
    /\ PageInit /\ TranslateIdle /\ AggIdle /\ UiIdle

SchedNext == Tick \/ RunNext

SchedSpec == SchedInit /\ [][SchedNext]_vars

\* DiffSpec: the diff step at one instant; daily saved searches over
\* backends whose result sets grow, and rows that are marked read
DiffInit ==
    /\ StoreInit /\ EmptyCatalog /\ AllDaily
    /\ PageInit /\ TranslateIdle /\ AggIdle /\ UiIdle

DiffNext ==
    \/ \E b \in SavedBackends, x \in ExtIds : Publish(b, x)
    \/ \E row \in seenRows : MarkRead(row)
    \/ RunNext

DiffSpec == DiffInit /\ [][DiffNext]_vars

\* AggSpec: aggregations of queries over every set of backends
AggInit == TranslateIdle /\ SchedIdle /\ AggIdle /\ UiIdle

AggNext ==
    \/ \E backends \in BackendSets : aggregate(backends)
    \/ \E b \in Databases, records \in SUBSET ExtIds : ClientReturns(b, records)
    \/ \E b \in Databases : ClientFails(b)
    \/ \E b \in Databases : ClientTimesOut(b)
    \/ JoinTasks

AggSpec == AggInit /\ [][AggNext]_vars

\* the form and the page as mounted, the server side at rest
FormInit == FormMounted /\ UiIdle /\ SchedIdle /\ AggIdle

\* YearSpec: the year fields of the form, its first term and its submission
YearNext ==
    \/ \E value \in YearInputs : handleStartYearChange(value)
    \/ \E value \in YearInputs : handleEndYearChange(value)
    \/ \E value \in {<<>>, Cancer} : handleTermChange(1, value)
    \/ \E newValue \in 0..2 : handleTabChange(newValue)
    \/ handleSubmit

YearSpec == FormInit /\ [][YearNext]_vars

\* DatabaseSpec: the database check boxes, the first term, the submission
DatabaseNext ==
    \/ \E databaseId \in Databases : handleDatabaseChange(databaseId)
    \/ \E value \in {<<>>, Cancer} : handleTermChange(1, value)
    \/ \E newValue \in 0..2 : handleTabChange(newValue)
    \/ handleSubmit

DatabaseSpec == FormInit /\ [][DatabaseNext]_vars

\* LimitSpec: the slider and the text input of the results limit
LimitNext ==
    \/ \E newValue \in SliderValues : handleSliderChange(newValue)
    \/ \E value \in LimitInputs : handleInputChange(value)
    \/ handleSubmit

LimitSpec == FormInit /\ [][LimitNext]_vars

\* PapersSpec: the New Papers page over a store whose rows are all unread
PapersInit ==
    /\ TranslateIdle /\ AggIdle /\ FormIdle /\ ModalIdle /\ MoreIdle
    /\ now = 1
    /\ searches = [id \in SearchIds |->
                      [active |-> TRUE, frequency |-> "daily",
                       lastCheckedAt |-> 0]]
    /\ PageInit
    /\ catalog = [b \in SavedBackends |->
                      IF b = "pubmed" THEN ExtIds ELSE {1}]
    /\ seenRows = UNION {InsertRows({}, id, Results({})) : id \in SearchIds}
    /\ runs = {}
    /\ sweeping = FALSE
    /\ sweepQueue = {}
    /\ papers = NewPapers(seenRows)
    /\ markingRead = NoPaper
    /\ papersError = ""
    /\ markCalls = {}

PapersNext ==
    \/ \E paperId \in PaperKeys : handleMarkAsRead(paperId)
    \/ \E call \in markCalls : MarkAsReadServed(call)
    \/ \E call \in markCalls : MarkAsReadResolved(call)
    \/ \E call \in markCalls : MarkAsReadRejected(call)

PapersSpec == PapersInit /\ [][PapersNext]_vars

\* LifeSpec: two saved searches that are run, tested, toggled and deleted
\* from the page
LifeInit ==
    /\ TranslateIdle /\ AggIdle /\ FormIdle /\ PapersIdle /\ ModalIdle
    /\ MoreIdle
    /\ now = 1
    /\ searches \in [LifeIds -> [active : BOOLEAN, frequency : {"daily"},
                                 lastCheckedAt : {0}]]
    /\ catalog = [b \in SavedBackends |-> IF b = "pubmed" THEN {1} ELSE {}]
    /\ seenRows = {}
    /\ runs = {}
    /\ sweeping = FALSE
    /\ sweepQueue = {}
    /\ PageInit

LifeNext ==
    \/ \E id \in LifeIds : RowButtonsEnabled(id) /\ handleRunSearch(id)
    \/ \E id \in LifeIds : RowButtonsEnabled(id) /\ handleTestAlert(id)
    \/ \E id \in LifeIds : handleToggleSearch(id)
    \/ \E id \in LifeIds : openDeleteDialog(id)
    \/ closeDeleteDialog
    \/ handleDeleteSearch
    \/ ManualRunStart
    \/ TestRunStart
    \/ ToggleServed
    \/ DeleteServed
    \/ RunSearchResolved
    \/ TestAlertResolved
    \/ ToggleSearchResolved
    \/ DeleteSearchResolved
    \/ request.kind # "delete" /\ RequestRejected
    \/ DeleteSearchRejected
    \/ \E r \in runs : RunFinish(r)
    \/ \E row \in seenRows : MarkRead(row)

LifeSpec == LifeInit /\ [][LifeNext]_vars

\* CascadeSpec: saved searches are deleted from the page while the sweep
\* runs them
CascadeInit == LifeInit /\ \A id \in LifeIds : searches[id].active

CascadeNext ==
    \/ \E id \in LifeIds : openDeleteDialog(id)
    \/ closeDeleteDialog
    \/ handleDeleteSearch
    \/ DeleteServed
    \/ DeleteSearchResolved
    \/ DeleteSearchRejected
    \/ SweepSelect
    \/ \E sid \in LifeIds : ScheduledRunStart(sid)
    \/ \E sid \in LifeIds : ScheduledRunDropped(sid)
    \/ SweepDone
    \/ \E r \in runs : RunFinish(r)
    \/ \E row \in seenRows : MarkRead(row)

CascadeSpec == CascadeInit /\ [][CascadeNext]_vars

\* ResultsSpec: direct searches from the mounted form to the results view
ResultsInit == FormInit

ResultsNext ==
    \/ ~loading /\ handleSubmit
    \/ SearchServed
    \/ \E b \in Databases, records \in SUBSET ExtIds : ClientReturns(b, records)
    \/ \E b \in Databases : ClientFails(b)
    \/ \E b \in Databases : ClientTimesOut(b)
    \/ JoinTasks
    \/ SearchResponded
    \/ SearchResolved
    \/ SearchRejected
    \/ \E newValue \in 0..3 : handleResultsTabChange(newValue)

ResultsSpec == ResultsInit /\ [][ResultsNext]_vars

\* ModalSpec: the Save Search dialog of a search over any set of databases
ModalInit ==
    /\ TranslateIdle /\ SchedIdle /\ AggIdle /\ FormIdle /\ PapersIdle
    /\ MoreIdle
    /\ \E databases \in SUBSET Databases : ModalMounted(databases)

ModalNext ==
    \/ handleSaveSearch
    \/ \E value \in NameInputs : setSearchName(value)
    \/ \E value \in EmailInputs : setEmail(value)
    \/ \E value \in FrequencyOptions : setFrequency(value)
    \/ \E db \in Databases : handleMonitoredChange(db)
    \/ handleSaveSubmit
    \/ SaveResolved
    \/ SaveRejected
    \/ closeSaveModal
    \/ closeSaveNotification

ModalSpec == ModalInit /\ [][ModalNext]_vars


\* OverlapSpec: the search form is edited and submitted while earlier
\* searches are still out
OverlapInit == FormInit

OverlapNext ==
    \/ \E value \in {Cancer, GeneTherapy} : handleTermChange(1, value)
    \/ handleDatabaseChange("gim")
    \/ handleSearch
    \/ \E call \in searchCalls : SearchAnswered(call)
    \/ \E call \in searchCalls : SearchCallResolved(call)
    \/ \E call \in searchCalls : SearchCallRejected(call)

OverlapSpec == OverlapInit /\ [][OverlapNext]_vars

\* the rows a user can bring the form to: a text or none, an operator of
\* the operator select, and no field or a field
SentRows == [text : {<<>>, Cancer}, op : Operators, field : {"", "title"}]

\* rows that vary the field over the options of the field select
SentFieldRows == [text : {Cancer}, op : {"AND"}, field : FieldOptions]

\* SendSpec: the form holds any such rows and is submitted
SendInit ==
    /\ \E rows \in (RowLists(SentRows, MaxSentTerms)
                       \cup RowLists(SentFieldRows, 1)) \ {<<>>} :
         searchParams = ParamsOf(rows, "", "")
    /\ activeTab = 0
    /\ preview = RenderPreview(searchParams, 0)
    /\ UiIdle /\ SchedIdle /\ AggIdle

SendNext ==
    \/ handleSearch
    \/ \E call \in searchCalls : SearchAnswered(call)
    \/ \E call \in searchCalls : SearchCallResolved(call)
    \/ \E call \in searchCalls : SearchCallRejected(call)

SendSpec == SendInit /\ [][SendNext]_vars

\* FetchSpec: the New Papers page over a store of unread rows, after the
\* fetchData of its mount returned (the filter of the saved searches has its
\* options); then the filters are changed
FetchInit ==
    /\ TranslateIdle /\ AggIdle /\ FormIdle /\ ModalIdle
    /\ OverlapIdle /\ HtmlIdle
    /\ now = 1
    /\ searches = [id \in SearchIds |->
                      [active |-> TRUE, frequency |-> "daily",
                       lastCheckedAt |-> 0]]
    /\ PageInit
    /\ catalog = [b \in SavedBackends |->
                      IF b = "pubmed" THEN ExtIds ELSE {1}]
    /\ seenRows = UNION {InsertRows({}, id, Results({})) : id \in SearchIds}
    /\ runs = {}
    /\ sweeping = FALSE
    /\ sweepQueue = {}
    /\ papers = FilteredPapers(seenRows, Filters(NoFilter, NoFilter))
    /\ markingRead = NoPaper
    /\ papersError = ""
    /\ markCalls = {}
    /\ FetchIdle

FetchNext ==
    \/ \E value \in SearchIdTexts \cup {NoFilter} : handleSearchChange(value)
    \/ \E value \in DatabaseTexts \cup {NoFilter} :
         handleFilterDatabaseChange(value)
    \/ \E call \in fetches : SavedSearchesFetched(call)
    \/ \E call \in fetches : NewPapersServed(call)
    \/ \E call \in fetches : FetchResolved(call)
    \/ \E call \in fetches : FetchRejected(call)

FetchSpec == FetchInit /\ [][FetchNext]_vars

\* what is typed into a query editor
EditorTexts == {<<>>, <<"cancer", SP, "OR", SP, "tumour">>}

\* HtmlSpec: the HTML form is filled in while its query boxes are edited
HtmlInit == TranslateIdle /\ SchedIdle /\ AggIdle /\ UiIdle

HtmlNext ==
    \/ \E db \in HtmlDatabases : toggleEdit(db)
    \/ \E db \in HtmlDatabases, value \in EditorTexts : editorInput(db, value)
    \/ \E i \in 1..MaxHtmlRows, value \in {<<>>, Cancer} : termInput(i, value)
    \/ \E i \in 1..MaxHtmlRows, value \in HtmlFieldValues :
         fieldChange(i, value)
    \/ addTerm

HtmlSpec == HtmlInit /\ [][HtmlNext]_vars

-----------------------------------------------------------------------------
(* Claims about the translators (specification Spec) *)

FieldMapping(db, field) ==
    CASE db = "pubmed" -> PubMedFieldMapping(field)
      [] db = "arxiv"  -> ArXivFieldMapping(field)
      [] db = "gim"    -> GIMFieldMapping(field)

NoActiveTerms(sp) == \A i \in 1..Len(sp.terms) : ~IsActive(sp.terms[i])

\* the positions of the active terms, in order
RECURSIVE ActiveFrom(_, _)
ActiveFrom(sp, i) ==
    IF i > Len(sp.terms) THEN <<>>
    ELSE (IF IsActive(sp.terms[i]) THEN <<i>> ELSE <<>>) \o ActiveFrom(sp, i + 1)

\* the term and connective parts the claim C1 asks for: every active term
\* but the first rendered one is preceded by its own connective
C1_Expected(db, sp) ==
    LET act == ActiveFrom(sp, 1)
        Piece(k) ==
            (IF k = 1 THEN <<>>
             ELSE <<[kind |-> "op",
                     text |-> <<OperatorOrAnd(sp.operators[act[k]])>>]>>)
            \o <<[kind |-> "term",
                  text |-> RenderTerm(db, sp.terms[act[k]], sp.fields[act[k]])]>>
        Upto[k \in 0..Len(act)] ==
            IF k = 0 THEN <<>> ELSE Upto[k - 1] \o Piece(k)
    IN Upto[Len(act)]

\* C1: in every translator the connective emitted between two consecutively
\* rendered terms is the connective of the later of the two terms (AND when
\* unspecified), and the connective of the first rendered term is not
\* emitted.
C1_ConnectiveOfLaterTerm ==
    \A db \in Databases :
        TermParts(db, searchParams, 1) = C1_Expected(db, searchParams)

\* the date-range clause of a backend without the AND that joins it
C2_DateClause(db, s, e) ==
    LET d == TrimStart(DatePart(db, s, e))
    IN IF d # <<>> /\ Head(d) = "AND" THEN TrimStart(Tail(d)) ELSE d

\* C2: with no active term and both years present, every translator's
\* output is exactly its date-range clause: not the empty string, and not
\* starting with a connective.
C2_DateClauseAlone ==
    (NoActiveTerms(searchParams) /\ HasDateRange(searchParams)) =>
        \A db \in Databases :
            /\ BuildQuery(db, searchParams) # <<>>
            /\ Str(BuildQuery(db, searchParams))
                 = Str(C2_DateClause(db, searchParams.startYear,
                                     searchParams.endYear))

\* C9: in every translator a term whose field has no entry in the backend's
\* field-mapping table is rendered exactly as the same term with field ANY.
C9_UnmappedFieldAsAny ==
    \A db \in Databases : \A i \in 1..Len(searchParams.terms) :
        (IsActive(searchParams.terms[i])
            /\ FieldMapping(db, searchParams.fields[i]) = <<>>) =>
        RenderTerm(db, searchParams.terms[i], searchParams.fields[i])
            = RenderTerm(db, searchParams.terms[i], "")

TermTexts(db, sp) ==
    LET ps == SelectSeq(QueryParts(db, sp), LAMBDA p : p.kind = "term")
    IN [k \in 1..Len(ps) |-> ps[k].text]

\* r is '(' text marker ')' with a bracketed marker, or none
C10_PubMedShape(r, text, field) ==
    /\ Len(r) >= Len(text) + 2
    /\ r[1] = "(" /\ r[Len(r)] = ")"
    /\ SubSeq(r, 2, Len(text) + 1) = text
    /\ LET m == SubSeq(r, Len(text) + 2, Len(r) - 1)
       IN /\ (field = "" => m = <<>>)
          /\ (field \in FieldOptions \ {""} => m # <<>>)
          /\ (m # <<>> => m[1] = "[" /\ m[Len(m)] = "]")

\* r is the prefix marker followed by the double-quoted text
C10_ArXivShape(r, text, field) ==
    LET m == ArXivFieldMapping(field)
    IN m # <<>> =>
        /\ m[Len(m)] = ":"
        /\ r = m \o <<QUOTE>> \o text \o <<QUOTE>>

C10_Scenario(sp) ==
    /\ sp.terms = <<GeneTherapy, ClinicalTrial>>
    /\ sp.fields = <<"", "author">>
    /\ sp.operators = <<"AND", "AND">>
    /\ ~HasDateRange(sp)

C10_CancerTitle(sp) ==
    /\ sp.terms = <<Cancer>>
    /\ sp.fields = <<"title">>
    /\ ~HasDateRange(sp)

\* C10: the PubMed translator renders an active term as '(' text marker ')'
\* with the bracketed field marker after the text and none for field ANY;
\* the arXiv translator renders a mapped field as its prefix marker followed
\* by the quoted text; 'cancer' in TITLE gives (cancer[Title]) and
\* ti:"cancer", and the two-term scenario gives
\* (gene therapy) AND (clinical trial[Author]).
C10_FieldMarkerPlacement ==
    LET sp == searchParams
        act == ActiveFrom(sp, 1)
    IN /\ Len(TermTexts("pubmed", sp)) = Len(act)
       /\ Len(TermTexts("arxiv", sp)) = Len(act)
       /\ \A k \in 1..Len(act) :
            /\ C10_PubMedShape(TermTexts("pubmed", sp)[k],
                               sp.terms[act[k]], sp.fields[act[k]])
            /\ C10_ArXivShape(TermTexts("arxiv", sp)[k],
                              sp.terms[act[k]], sp.fields[act[k]])
       /\ (C10_CancerTitle(sp) =>
            /\ Str(buildPubMedQuery(sp)) = "(cancer[Title])"
            /\ Str(buildArXivQuery(sp)) = "ti:\"cancer\"")
       /\ (C10_Scenario(sp) =>
            Str(buildPubMedQuery(sp))
                = "(gene therapy) AND (clinical trial[Author])")

\* the arXiv tab has been opened on 'cancer' in TITLE and shows ti:"cancer"
C10_Witness ==
    /\ C10_CancerTitle(searchParams)
    /\ activeTab = 1
    /\ preview.visible
    /\ Str(preview.text) = "ti:\"cancer\""

-----------------------------------------------------------------------------
(* Claims about the store and the scheduler (SchedSpec, DiffSpec) *)

\* the step is the end of the execution r
Finishes(r) == r \in runs /\ runs' = runs \ {r}

\* the executions of a saved search that are in flight
ExecutionsOf(id) == {r \in runs : r.sid = id}

C3_Unique ==
    \A r1 \in seenRows : \A r2 \in seenRows : Key(r1) = Key(r2) => r1 = r2

\* a run that starts finds new exactly the records that have no row yet
C3_Start ==
    \A r \in runs' \ runs :
        r.origin # "test" =>
            /\ r.fresh \subseteq Results(r.failed)
            /\ \A k \in Results(r.failed) :
                 RowsOf(seenRows, r.sid, k[1], k[2]) # {} => k \notin r.fresh

\* a run that found every record recorded reports 0 and adds no row
C3_Rerun ==
    \A r \in runs :
        (Finishes(r) /\ r.origin # "test" /\ r.fresh = {}) =>
            /\ seenRows' = seenRows
            /\ RunSummary(r).newResultCount = 0
            /\ (r.origin = "manual" => request'.result.new_papers_count = 0)

\* a row that is read stays read, and no unread row of its pair appears
C3_KeepRead ==
    \A row \in seenRows :
        row.isRead =>
            \A row2 \in seenRows' : Key(row2) = Key(row) => row2.isRead

C4_OneExecutionPerId ==
    \A id \in SearchIds : Cardinality(ExecutionsOf(id)) <= 1

C5_Finish ==
    \A r \in runs :
        (Finishes(r) /\ r.origin # "test") =>
            IF r.failed = SavedBackends
            THEN /\ searches'[r.sid].lastCheckedAt = searches[r.sid].lastCheckedAt
                 /\ seenRows' = seenRows
                 /\ (r.sid \in DueSelection(now) => r.sid \in DueSelection(now)')
            ELSE searches'[r.sid].lastCheckedAt = now

C5_NextSweep ==
    (~sweeping /\ sweeping') => DueSelection(now) \subseteq sweepQueue'

\* C5: a run whose backends all failed leaves lastCheckedAt and the
\* SeenResult rows unchanged and the saved search due if it was, so that the
\* next sweep selects it; every other run sets lastCheckedAt to now.
C5_TotalFailureNotAdvanced == [][C5_Finish /\ C5_NextSweep]_vars

\* a saved search that was checked before is due again, a manual run of it
\* has just failed on every backend, and the sweep has selected it
C5_Witness ==
    /\ request.kind = "run" /\ request.phase = "responded"
    /\ request.result.error
    /\ searches[request.id].lastCheckedAt # NoCheck
    /\ searches[request.id].lastCheckedAt < now
    /\ request.id \in sweepQueue

\* the end of a run with a succeeding and a failing backend
C6_Finish ==
    \A r \in runs :
        (Finishes(r) /\ r.origin # "test"
            /\ r.failed # {} /\ r.failed # SavedBackends) =>
            /\ searches'[r.sid].lastCheckedAt = now
            /\ {Key(row) : row \in seenRows' \ seenRows}
                 = {<<r.sid, k[1], k[2]>> : k \in r.fresh}
            /\ \A row \in seenRows' \ seenRows :
                 ~row.isRead /\ row.backend \notin r.failed
            /\ RunSummary(r).newResultCount
                 = Cardinality(seenRows' \ seenRows)
            /\ RunSummary(r).perBackendErrors = r.failed

\* C6: a run with at least one succeeding and one failing backend advances
\* lastCheckedAt, makes exactly the records it found unseen on the
\* succeeding backends new SeenResult rows, reports their number as
\* newResultCount and lists every failed backend in perBackendErrors.
C6_PartialFailure == [][C6_Finish]_vars

C7_Interval(frequency) ==
    CASE frequency = "daily" -> 1
      [] frequency = "weekly" -> 7
      [] frequency = "monthly" -> 30

C7_Due(id) ==
    /\ searches[id].active = TRUE
    /\ \/ searches[id].lastCheckedAt = NoCheck
       \/ now - searches[id].lastCheckedAt >= C7_Interval(searches[id].frequency)

C7_Sweep ==
    (~sweeping /\ sweeping') => sweepQueue' = {id \in SearchIds : C7_Due(id)}

C7_Scheduled ==
    \A r \in runs' \ runs : r.origin = "scheduled" => r.sid \in sweepQueue

\* C7: a sweep selects exactly the saved searches that are active and either
\* never checked or checked at least one interval of their frequency ago
\* (1, 7, 30 days); an inactive one is never selected, also when it was never
\* checked, and only selected saved searches are executed by the scheduler.
C7_DueSelectionRule == [][C7_Sweep /\ C7_Scheduled]_vars

\* a sweep has passed over an inactive saved search that was never checked
\* after time went by, and selected nothing
C7_Witness ==
    /\ sweeping /\ now > 0
    /\ \E id \in SearchIds :
         /\ ~searches[id].active
         /\ searches[id].lastCheckedAt = NoCheck
         /\ id \notin sweepQueue
    /\ \A r \in runs : r.origin # "scheduled"

-----------------------------------------------------------------------------
(* Claims about the aggregator (AggSpec) *)

C8_Returned ==
    aggStatus = "done" =>
        /\ DOMAIN aggResult = aggBackends
        /\ \A b \in aggBackends :
             IF aggTasks[b].state \in {"failed", "timeout"}
             THEN /\ aggResult[b].kind = "error"
                  /\ aggResult[b].reason # ""
             ELSE /\ aggResult[b].kind = "records"
                  /\ aggResult[b].records = aggTasks[b].records

C8_Completes ==
    /\ aggStatus # "failed"
    /\ aggStatus = "running" =>
         /\ \A b \in aggBackends :
              aggTasks[b].state = "pending" => ENABLED ClientReturns(b, {})
         /\ (\A b \in aggBackends : aggTasks[b].state # "pending")
              => ENABLED JoinTasks

\* C8: aggregate returns exactly one outcome for every requested backend;
\* the outcome of a backend that failed or timed out is an error descriptor,
\* the outcome of every other backend is the result list its client
\* returned, and the aggregation never fails as a whole nor waits for a
\* backend that has failed.
C8_OneOutcomePerBackend == C8_Returned /\ C8_Completes

\* an aggregation over all three backends has returned with one backend
\* failed, one timed out and one with its records
C8_Witness ==
    /\ aggStatus = "done" /\ aggBackends = Databases
    /\ \E b \in aggBackends : aggTasks[b].state = "failed"
    /\ \E b \in aggBackends : aggTasks[b].state = "timeout"
    /\ \E b \in aggBackends :
         aggResult[b].kind = "records" /\ aggResult[b].records # {}

-----------------------------------------------------------------------------
(* Claims about the search form (YearSpec, DatabaseSpec, LimitSpec) *)

\* the number a stored year spells
YearNumber(year) ==
    ParseInt(CHOOSE value \in YearInputs : Str(value) = year).val

\* both years are present and startYear > endYear
InvertedRange(startYear, endYear) ==
    /\ startYear # "" /\ endYear # ""
    /\ YearNumber(startYear) > YearNumber(endYear)

\* C11: a query whose years are both present with startYear > endYear is
\* rejected when it is constructed: no search request is sent for it and no
\* translated query is shown for it.
C11_InvertedRangeRejected ==
    /\ searchRequest.sent =>
         ~InvertedRange(searchRequest.params.startYear,
                        searchRequest.params.endYear)
    /\ preview.visible =>
         ~InvertedRange(searchParams.startYear, searchParams.endYear)

\* C12: every direct search request carries a non-empty set of backends:
\* submitting the form with no database selected sends no search request.
C12_BackendsNonEmpty ==
    searchRequest.sent => searchRequest.params.databases # {}

AllDigits(value) == \A i \in 1..Len(value) : value[i] \in Digits

\* value spells an integer within [1800, current year]
C19_YearInRange(value) ==
    /\ value # <<>> /\ AllDigits(value)
    /\ DigitsValue(value, 0) >= 1800 /\ DigitsValue(value, 0) <= CurrentYear

C19_Stored(year) ==
    year = "" \/ \E value \in YearInputs :
                    Str(value) = year /\ C19_YearInRange(value)

\* an edit to a value that is not empty and not in range changes nothing
C19_Rejects ==
    \A value \in YearInputs :
        (value # <<>> /\ ~C19_YearInRange(value)) =>
            /\ handleStartYearChange(value) => searchParams' = searchParams
            /\ handleEndYearChange(value) => searchParams' = searchParams

\* C19: after any sequence of edits of the two year fields each stored year
\* is empty or an integer within [1800, current year], and an edit to a value
\* outside that range leaves the stored years unchanged.
C19_YearsInRange ==
    /\ [](C19_Stored(searchParams.startYear)
           /\ C19_Stored(searchParams.endYear))
    /\ [][C19_Rejects]_vars

\* both ends of the range are stored and were submitted
C19_Witness ==
    /\ searchParams.startYear = "1800"
    /\ searchParams.endYear = Str(<<"2", "0", "2", "6">>)
    /\ searchRequest.sent
    /\ searchRequest.params.startYear = "1800"

\* a text input that is not a number within [10, 200] changes nothing
C20_Rejects ==
    \A value \in LimitInputs :
        (ParseInt(value).nan \/ ParseInt(value).val < 10
            \/ ParseInt(value).val > 200) =>
            (handleInputChange(value) => maxResults' = maxResults)

\* C20: from the initial value 50 on, after any slider moves and text edits
\* the maxResults held by the form and sent with a request is an integer
\* within [10, 200], hence within [1, 1000]; a non-numeric or out-of-range
\* text input does not change it.
C20_MaxResultsInRange ==
    /\ [](/\ maxResults \in 10..200 /\ maxResults \in 1..1000
           /\ searchRequest.sent =>
                searchRequest.params.maxResults \in 10..200)
    /\ [][C20_Rejects]_vars

\* a value typed into the text input, off the slider's steps, was sent
C20_Witness ==
    /\ searchRequest.sent
    /\ searchRequest.params.maxResults = 55
    /\ maxResults = 200

-----------------------------------------------------------------------------
(* Claims on mark-as-read, specification PapersSpec *)

\* the store's part: markRead leaves the row read, and on a row that is read
\* already it changes no row
C13_StoreIdempotent ==
    [][\A call \in markCalls :
         MarkAsReadServed(call) =>
             /\ IsRead(seenRows', call.id)
             /\ IsRead(seenRows, call.id) => seenRows' = seenRows]_vars

\* C13: markRead sets isRead, and a second call on the same id succeeds and
\* changes no state: once a call on a paper has taken it off the list, the
\* return of another call on that paper, which found the row read already,
\* leaves the store, the error and the displayed list as they are
C13_SecondCallChangesNothing ==
    [][\A call \in markCalls :
         (call.wasRead /\ call.id \notin papers /\ MarkAsReadResolved(call))
             => /\ papers' = papers
                /\ papersError' = papersError
                /\ seenRows' = seenRows]_vars
-----------------------------------------------------------------------------
(* Claims on the life of a saved search, specification LifeSpec *)

Stored(id) == id \in DOMAIN searches

\* when no request is out, the page lists stored saved searches only, each
\* with the active flag the store holds
C14_PageShowsStore ==
    request = NoRequest =>
        \A id \in DOMAIN pageSearches :
            Stored(id) /\ pageSearches[id].active = searches[id].active

\* the served toggle of id
ToggleServedOn(id) ==
    request.kind = "toggle" /\ request.id = id /\ ToggleServed

C14_Step ==
    \A id \in LifeIds :
        \* the flag changes only through the toggle of this saved search
        /\ (Stored(id) /\ id \in DOMAIN searches'
               /\ searches'[id].active # searches[id].active)
              => ToggleServedOn(id)
        \* one successful toggle flips it
        /\ ToggleServedOn(id) => searches'[id].active = ~searches[id].active
        \* a failed toggle leaves it unchanged, in the store and on the page
        /\ (request.kind = "toggle" /\ RequestRejected)
              => searches' = searches /\ pageSearches' = pageSearches
        \* deletion is terminal: the saved search is not stored again, not
        \* run and not listed again
        /\ ~Stored(id) =>
              /\ id \notin DOMAIN searches'
              /\ \A r \in runs' \ runs : r.sid # id
        /\ id \notin DOMAIN pageSearches => id \notin DOMAIN pageSearches'

-----------------------------------------------------------------------------
(* Claims on the SeenResult rows of deleted saved searches, specification  *)
(* CascadeSpec                                                             *)

\* the delete removes the rows of the saved search, rows appear only when
\* a run finishes, and a row that stays changes only by being marked read
C15_RowSteps ==
    [][/\ \A id \in LifeIds :
            (request.kind = "delete" /\ request.id = id /\ DeleteServed)
                => \A row \in seenRows' : row.sid # id
       /\ {Key(row) : row \in seenRows'} \subseteq {Key(row) : row \in seenRows}
            \/ \E r \in runs : RunFinish(r)
       /\ \A row \in seenRows' :
            \A old \in RowsOf(seenRows, row.sid, row.backend, row.extId) :
                old # row => MarkRead(old)]_vars

\* C15: in every reachable state each SeenResult row refers to a stored
\* saved search, also when a run of the saved search was in flight while it
\* was deleted
C15_NoOrphanRows == \A row \in seenRows : Stored(row.sid)
-----------------------------------------------------------------------------
(* Claims on the display of a partly failed search, specification          *)
(* ResultsSpec                                                             *)

Succeeded(res) == {b \in DOMAIN res : res[b].type = "array"}

FailedBackends(res) == (DOMAIN res) \ Succeeded(res)

\* the results had backend b answered with no record
WithNoRecords(res, b) ==
    [res EXCEPT ![b] = [type |-> "array", items |-> {}, length |-> 0]]

\* what the view shows about backend b
ShownOf(view, b) ==
    [label |-> view.labels[b], panel |-> view.panels[b],
     cards |-> view.cards[b], noResults |-> view.noResults]

\* the view of res on the tab shows an error marker for the failed backend
\* b: it is rendered, and what it shows about b is not what it shows when b
\* answers with no record
ErrorMarked(res, tab, b) ==
    /\ ~Crashes(res, tab)
    /\ ShownOf(ResultsView(res, tab), b)
           # ShownOf(ResultsView(WithNoRecords(res, b), tab), b)

\* C16: when the response of a direct search holds a succeeded and a failed
\* backend, the results view shows the records of the succeeded backends on
\* the All Results tab and marks every failed backend with an error that
\* differs from what it shows for a backend without results
C16_FailedBackendMarked ==
    LET res == results.outcomes
    IN  (ResultsShown /\ Succeeded(res) # {} /\ FailedBackends(res) # {})
            => /\ resultsTab = 0 =>
                     \A b \in Succeeded(res) :
                         ResultsView(res, 0).cards[b] = res[b].items
               /\ \A b \in FailedBackends(res) :
                     ErrorMarked(res, resultsTab, b)
-----------------------------------------------------------------------------
(* Claims on the report of a manual run or test, specification LifeSpec *)

\* the response in hand reports an error
ErrorOutcome == request.result.error

\* the response in hand reports a completed run without new results
ZeroOutcome ==
    /\ ~request.result.error
    /\ request.result.success
    /\ request.result.new_papers_count = 0

\* C17: for a manual run or test of a saved search, a completed run with
\* newResultCount = 0 is shown as a notification that is no error, an error
\* outcome is shown as an error notification, and the two never look the
\* same
C17_ZeroDistinctFromError ==
    [][(RunSearchResolved \/ TestAlertResolved) =>
          /\ ErrorOutcome => notification'.severity = "error"
          /\ ZeroOutcome =>
                /\ notification'.severity \in {"info", "success"}
                /\ notification' \in {Shown("none", "info"),
                                      Shown("tested", "success")}]_vars

\* a manual run that completed without new results has been reported
C17_Witness ==
    /\ notification = Shown("none", "info")
    /\ request = NoRequest
    /\ \E id \in DOMAIN searches : searches[id].lastCheckedAt = now
-----------------------------------------------------------------------------
(* Claims on the Save Search dialog, specification ModalSpec *)

\* what the dialog holds may be saved
C18_Valid ==
    /\ Trim(searchName) # <<>>
    /\ selectedDatabases # {}
    /\ saveFrequency \in Frequencies

\* C18: a save-search request is sent only if the name is not empty after
\* trimming, a database is selected and the frequency is daily, weekly or
\* monthly; otherwise no request is sent, a validation error is shown and
\* the dialog stays open without onSuccess being called
C18_SaveValidated ==
    [][/\ saveRequest' # saveRequest =>
            /\ C18_Valid
            /\ saveRequest'.data.databases = selectedDatabases
            /\ saveRequest'.data.frequency = saveFrequency
       /\ (handleSaveSubmit /\ ~C18_Valid) =>
            /\ saveRequest' = saveRequest
            /\ saveError' # ""
            /\ saveModalOpen'
            /\ ~saveLoading'
            /\ saveNotified' = saveNotified]_vars

\* a request was sent, and a later submit without a database was refused
\* with the dialog left open
C18_Witness ==
    /\ saveRequest.n = 1
    /\ saveError = "Please select at least one database"
    /\ selectedDatabases = {}
    /\ saveModalOpen
    /\ ~saveLoading

-----------------------------------------------------------------------------
(* Claims about the placement of connectives and blanks (specification Spec) *)

\* a connective part stands between two rendered terms
C21_Between(parts, k) ==
    /\ k > 1
    /\ k < Len(parts)
    /\ parts[k - 1].kind = "term"
    /\ parts[k + 1].kind = "term"

\* C21: for a term list with at least one active term (blank terms before,
\* between or after the active ones), every connective of the translated
\* output stands between two rendered terms, and the date clause, which
\* brings its own AND, directly follows a rendered term: the output neither
\* starts nor ends with a connective and holds no two connectives in a row.
C21_ConnectivesBetweenTerms ==
    ~NoActiveTerms(searchParams) =>
        \A db \in Databases :
            LET parts == QueryParts(db, searchParams)
            IN /\ parts[1].kind = "term"
               /\ \A k \in 1..Len(parts) :
                    /\ parts[k].kind = "op" => C21_Between(parts, k)
                    /\ parts[k].kind = "date" => parts[k - 1].kind = "term"

\* two blanks in a row somewhere in a text
DoubleSpace(text) ==
    \E k \in 1..(Len(text) - 1) : text[k] = SP /\ text[k + 1] = SP

\* C22: in the translated output of every backend the tokens (rendered
\* terms, connectives, the date-range clause with its AND) are separated by
\* exactly one space: the output never holds two spaces in a row, also when
\* a date range is appended.  (No term text of the inputs holds two spaces
\* in a row.)
C22_SingleSpaces ==
    \A db \in Databases : ~DoubleSpace(BuildQuery(db, searchParams))

-----------------------------------------------------------------------------
(* Claims on concurrent mark-as-read calls, specification PapersSpec *)

\* C23: under any interleaving of mark-as-read clicks on different papers
\* and of their responses, once every request has returned with success no
\* marked paper (its row is read in the store) is in the displayed list: a
\* paper taken off the list by one returning call is not put back by a call
\* returning later.
C23_MarkedPapersStayRemoved ==
    (markCalls = {} /\ papersError = "") =>
        \A paperId \in papers : ~IsRead(seenRows, paperId)

-----------------------------------------------------------------------------
(* Claims on the search page after a failed request, specification         *)
(* ResultsSpec                                                             *)

\* the last completed request failed: its error is on the page and no
\* request is pending
LastRequestFailed == ~loading /\ pageError # ""

\* C27: after a search request failed, the results of an earlier successful
\* search are not displayed together with the error: when no request is
\* pending and the last completed one failed, no results are shown.
C27_NoResultsWithError == LastRequestFailed => ~ResultsShown

-----------------------------------------------------------------------------
(* The Saved Searches page against every response body its service        *)
(* declares (savedSearchService.runSearch / testAlert), specification      *)
(* NotifySpec                                                              *)

\* Promise<{success: boolean; new_papers_count: number; error?: string}>:
\* error stands for a non-empty error string
ResponseBodies ==
    [success : BOOLEAN, new_papers_count : 0..MaxRecords, error : BOOLEAN]

\* await api.post(...) resolves; the service returns response.data as it is
ResponseReceived(body) ==
    /\ request.kind \in {"run", "test"}
    /\ request.phase = "sent"
    /\ request' = [request EXCEPT !.phase = "responded", !.result = body]
    /\ UNCHANGED <<actionLoading, notification>>
    /\ UNCHANGED <<storeVars, translateVars, aggVars, uiVars>>

NotifyInit == LifeInit

NotifyNext ==
    \/ \E id \in LifeIds : handleRunSearch(id)
    \/ \E id \in LifeIds : handleTestAlert(id)
    \/ \E body \in ResponseBodies : ResponseReceived(body)
    \/ RunSearchResolved
    \/ TestAlertResolved
    \/ RequestRejected

NotifySpec == NotifyInit /\ [][NotifyNext]_vars

\* the notifications of a run or test that was answered without error
C26_Reports ==
    {Shown("found", "success"), Shown("none", "info"),
     Shown("tested", "success")}

\* C26: every run-search or test-alert request that completes shows a
\* notification: an error notification when the request rejects or the
\* response carries error, otherwise a success or information notification;
\* no response body leaves the user without one.
C26_EveryCompletionNotifies ==
    [][/\ RequestRejected => notification'.severity = "error"
       /\ (RunSearchResolved \/ TestAlertResolved) =>
             /\ notification'.message # ""
             /\ ErrorOutcome => notification'.severity = "error"
             /\ ~ErrorOutcome => notification' \in C26_Reports]_vars

-----------------------------------------------------------------------------
(* Claims on overlapping searches, specification OverlapSpec *)

\* the labels ResultsContainer can show for a search with the params
C24_Labels(params) == {QueryEcho(params), JoinTerms(params.terms)} \ {<<>>}

\* C24: when a second search is submitted while the first is still pending,
\* then under every order of the two responses the results and the query
\* label displayed once both have completed (with success) are those of the
\* search submitted last: the results hold the databases it asked for and
\* the label spells its terms.
C24_LastSubmittedShown ==
    (searchCalls = {} /\ pageError = "" /\ results.shown) =>
        /\ DOMAIN results.outcomes = searchRequest.params.databases
        /\ searchQuery # NoLabel => searchQuery \in
                                        C24_Labels(searchRequest.params)
        /\ searchQuery = NoLabel => searchRequest.params.terms = <<>>

-----------------------------------------------------------------------------
(* Claims on the filters of the New Papers page, specification FetchSpec *)

\* C25: whenever no fetch is pending (and none failed), the displayed paper
\* list is the response to the currently selected pair of filters (saved
\* search, database), under every order in which the responses to
\* successive filter changes arrive.
C25_ListOfSelectedFilters ==
    (fetches = {} /\ papersError = "") =>
        papers = FilteredPapers(seenRows,
                                Filters(selectedSearchId, selectedDatabase))

-----------------------------------------------------------------------------
(* Claims on the query editors of the HTML form, specification HtmlSpec *)

\* C28: while the query editor of a database is open (after Edit was
\* clicked and before it is clicked again) the text typed into it is kept:
\* typing leaves the typed text in the editor, a regeneration of the query
\* from the fields of the form does not overwrite the editor, and once the
\* editor is closed again a change of the form regenerates the preview of
\* that database.
C28_EditorTextKept ==
    [][\A db \in HtmlDatabases :
         /\ \A value \in EditorTexts :
              editorInput(db, value) => queryBox'[db].editor = value
         /\ (EditorOpen(queryBox, db) /\ htmlForm' # htmlForm) =>
              queryBox'[db].editor = queryBox[db].editor
         /\ (~EditorOpen(queryBox, db) /\ htmlForm' # htmlForm) =>
              queryBox'[db].preview = buildQueryPreview(db, htmlForm')]_vars

-----------------------------------------------------------------------------
(* Claims on the request of a direct search, specification SendSpec *)

\* the values of the entries of a FormData under a name, in order
ValuesOf(formData, name) ==
    LET picked == SelectSeq(formData, LAMBDA e : e.name = name)
    IN [k \in 1..Len(picked) |-> picked[k].value]

C30_PreviewMarkerIsSentMarker ==
    \A call \in searchCalls : \A i \in 1..Len(call.params.terms) :
        ValuesOf(call.formData, "field")[i]
            = PubMedFieldMapping(call.params.fields[i])

====